---- MODULE Spec2Model ----
(***************************************************************************)
(* Model of the Codeception test adapter's execution path:                 *)
(*   - StreamingTestExecutor (src/src/coverageParser.ts, lines 499-724):   *)
(*     chunk buffering and line classification;                            *)
(*   - CodeceptionTestProvider.runTests / executeTestWithStreaming /       *)
(*     markUnseenTests / reconcileWithXmlResults (src/src/testProvider.ts);*)
(*   - JunitParser.parseJUnitXml (src/src/junitParser.ts).                 *)
(*                                                                         *)
(* Text is modelled as sequences of characters.  A character is a string;  *)
(* the glyphs U+2713 / U+2717 and the control characters are written by    *)
(* name ("CHK", "CROSS", "NL", "CR").                                      *)
(***************************************************************************)
EXTENDS Integers, Sequences, FiniteSets, TLC

VARIABLES
    \* ---- text level: StreamingTestExecutor buffers ----
    stdoutStream,   \* what the child process writes to stdout (input)
    stderrStream,   \* what the child process writes to stderr (input)
    outPos,         \* characters of stdoutStream delivered so far
    errPos,         \* characters of stderrStream delivered so far
    lineBuffer,     \* StreamingTestExecutor.lineBuffer
    stderrBuffer,   \* StreamingTestExecutor.stderrBuffer
    events,         \* calls of options.onTestResult, in order
    parsedLines,    \* lines handed to parseLine, in order (history)
    splitLine,      \* history: a line that arrived in two chunks was classified
    streamClosed,   \* the 'close' event of the child process was handled
    verbatim,       \* history: every chunk was appended to the run's output
                    \* exactly as it was received
    \* ---- run level: CodeceptionTestProvider.runTests ----
    queue,          \* runTests: the items of the request
    qi,             \* runTests: index of the item being run (0: not started)
    runEnded,       \* run.end() was called
    cancelRequested,\* token.isCancellationRequested
    cancelledRuns,  \* with several runs in flight: the runs whose token is
                    \* cancelled
    outcome,        \* per node: the state last reported to the TestRun
    inv,            \* per queue index: the closure of executeTestWithStreaming
    proc,           \* per queue index: the spawned child process
    timerLive,      \* per queue index: the setTimeout of line 526 is pending
    execProcess,    \* StreamingTestExecutor.process (0: null)
    timeoutHandle,  \* StreamingTestExecutor.timeoutHandle (0: null)
    report,         \* the file tests/_output/report.xml
    lateReport,     \* history: a node state was reported after run.end()
    atCancel        \* history: the node states when cancellation was requested

textVars == <<stdoutStream, stderrStream, outPos, errPos, lineBuffer,
              stderrBuffer, events, parsedLines, splitLine, streamClosed,
              verbatim>>

runVars == <<queue, qi, runEnded, cancelRequested, cancelledRuns, outcome, inv, proc,
             timerLive, execProcess, timeoutHandle, report, lateReport, atCancel>>

vars == <<textVars, runVars>>

----------------------------------------------------------------------------
(* Characters *)

CHK   == "CHK"
CROSS == "CROSS"
SP    == " "
NL    == "NL"
CR    == "CR"
ESC   == "ESC"     \* \x1B
HCHK  == "HCHK"    \* U+2714, the glyph cleanCodeceptionOutput looks for

LowerLetters == {"a", "b", "d", "e", "f", "g", "h", "i", "k", "l", "m", "n", "o",
                 "p", "r", "s", "t", "u", "w"}
UpperLetters == {"A", "B", "D", "E", "F", "G", "H", "I", "K", "L", "M", "N", "O",
                 "P", "R", "S", "T", "U", "W"}
Digits       == {"1", "2"}
WordChars    == LowerLetters \cup UpperLetters \cup Digits \cup {"_"}
SpaceChars   == {SP, NL, CR}

\* String.prototype.toLowerCase on one character
LowerChar(c) ==
    CASE c = "A" -> "a" [] c = "B" -> "b" [] c = "D" -> "d" [] c = "E" -> "e"
      [] c = "F" -> "f" [] c = "I" -> "i" [] c = "K" -> "k" [] c = "L" -> "l"
      [] c = "N" -> "n" [] c = "O" -> "o" [] c = "P" -> "p" [] c = "R" -> "r"
      [] c = "S" -> "s" [] c = "T" -> "t" [] c = "G" -> "g" [] c = "H" -> "h"
      [] c = "M" -> "m" [] c = "U" -> "u" [] c = "W" -> "w" [] OTHER -> c

\* String.prototype.toUpperCase on one character
UpperChar(c) ==
    CASE c = "a" -> "A" [] c = "b" -> "B" [] c = "d" -> "D" [] c = "e" -> "E"
      [] c = "f" -> "F" [] c = "i" -> "I" [] c = "k" -> "K" [] c = "l" -> "L"
      [] c = "n" -> "N" [] c = "o" -> "O" [] c = "p" -> "P" [] c = "r" -> "R"
      [] c = "s" -> "S" [] c = "t" -> "T" [] c = "g" -> "G" [] c = "h" -> "H"
      [] c = "m" -> "M" [] c = "u" -> "U" [] c = "w" -> "W" [] OTHER -> c

ToLowerCase(s) == [i \in 1..Len(s) |-> LowerChar(s[i])]
ToUpperCase(s) == [i \in 1..Len(s) |-> UpperChar(s[i])]

Chars(s) == {s[i] : i \in 1..Len(s)}

\* s.substring(n): the characters after the first n
Substring(s, n) == SubSeq(s, n + 1, Len(s))

\* s.startsWith(p)
StartsWith(s, p) == Len(s) >= Len(p) /\ SubSeq(s, 1, Len(p)) = p

\* End of the maximal run of characters of Cls starting at index i:
\* the least j >= i with j past the end or s[j] not in Cls (a greedy X+ / X*);
\* i itself when i is past the end.
RECURSIVE SpanEnd(_, _, _)
SpanEnd(s, i, Cls) ==
    IF i > Len(s) \/ s[i] \notin Cls THEN i ELSE SpanEnd(s, i + 1, Cls)

\* literal lit matches s at index i (case-insensitive when ci)
LitAt(s, i, lit, ci) ==
    /\ i >= 1
    /\ i + Len(lit) - 1 <= Len(s)
    /\ \A k \in 1..Len(lit) :
          IF ci THEN LowerChar(s[i + k - 1]) = LowerChar(lit[k])
                ELSE s[i + k - 1] = lit[k]

\* String.prototype.trim
Trim(s) ==
    LET a == SpanEnd(s, 1, SpaceChars)
    IN  IF a > Len(s) THEN <<>>
        ELSE LET b == CHOOSE j \in a..Len(s) :
                          /\ s[j] \notin SpaceChars
                          /\ \A k \in (j + 1)..Len(s) : s[k] \in SpaceChars
             IN  SubSeq(s, a, b)

\* String.prototype.split('\n')
RECURSIVE Split(_)
Split(s) ==
    IF NL \notin Chars(s) THEN <<s>>
    ELSE LET i == CHOOSE j \in 1..Len(s) :
                      s[j] = NL /\ \A k \in 1..(j - 1) : s[k] # NL
         IN  <<SubSeq(s, 1, i - 1)>> \o Split(Substring(s, i))

----------------------------------------------------------------------------
(* StreamingTestExecutor.parseLine: the ordered recognizers.  Each matcher  *)
(* returns the sequence of onTestResult calls it makes (none or one).       *)

Ev(name, passed) == [name |-> name, passed |-> passed]

\* the alternation (OK|FAILED|PASSED|ERROR) under /i at index i: the matched
\* text upper-cased, or <<>> when no alternative matches
StatusAt(s, i) ==
    IF LitAt(s, i, <<"O", "K">>, TRUE) THEN <<"O", "K">>
    ELSE IF LitAt(s, i, <<"F", "A", "I", "L", "E", "D">>, TRUE)
         THEN <<"F", "A", "I", "L", "E", "D">>
    ELSE IF LitAt(s, i, <<"P", "A", "S", "S", "E", "D">>, TRUE)
         THEN <<"P", "A", "S", "S", "E", "D">>
    ELSE IF LitAt(s, i, <<"E", "R", "R", "O", "R">>, TRUE)
         THEN <<"E", "R", "R", "O", "R">>
    ELSE <<>>

StatusPassed(status) ==
    status = <<"O", "K">> \/ status = <<"P", "A", "S", "S", "E", "D">>

\* /[CHK CROSS]\s+(\w+)(?:\s+\([^)]+\))?/ matched at index i
CheckmarkAt(s, i) ==
    /\ s[i] \in {CHK, CROSS}
    /\ SpanEnd(s, i + 1, SpaceChars) > i + 1
    /\ SpanEnd(s, SpanEnd(s, i + 1, SpaceChars), WordChars)
          > SpanEnd(s, i + 1, SpaceChars)

\* Pattern 1 (lines 657-665)
CheckmarkMatch(line) ==
    IF \E i \in 1..Len(line) : CheckmarkAt(line, i)
    THEN LET i == CHOOSE i \in 1..Len(line) :
                      CheckmarkAt(line, i)
                      /\ \A k \in 1..(i - 1) : ~CheckmarkAt(line, k)
             j == SpanEnd(line, i + 1, SpaceChars)
             k == SpanEnd(line, j, WordChars)
         IN  <<Ev(SubSeq(line, j, k - 1), CHK \in Chars(line))>>
    ELSE <<>>

\* Pattern 2 (lines 667-675): /^(\w+):\s*(OK|FAILED|PASSED|ERROR)/i
ColonMatch(line) ==
    LET k == SpanEnd(line, 1, WordChars)
    IN  IF k > 1 /\ k <= Len(line) /\ line[k] = ":"
           /\ StatusAt(line, SpanEnd(line, k + 1, SpaceChars)) # <<>>
        THEN <<Ev(SubSeq(line, 1, k - 1),
                  StatusPassed(StatusAt(line, SpanEnd(line, k + 1, SpaceChars))))>>
        ELSE <<>>

\* Pattern 3 (lines 677-685):
\* /^(\w+)\s+\([^)]+\)\s+\.\.\.\s+(OK|FAILED|PASSED|ERROR)/i
VerboseMatch(line) ==
    LET k == SpanEnd(line, 1, WordChars)
        j == SpanEnd(line, k, SpaceChars)
        m == SpanEnd(line, j + 1, Chars(line) \ {")"})
        n == SpanEnd(line, m + 1, SpaceChars)
        p == SpanEnd(line, n + 3, SpaceChars)
    IN  IF /\ k > 1
           /\ j > k /\ j <= Len(line) /\ line[j] = "("
           /\ m > j + 1 /\ m <= Len(line) /\ line[m] = ")"
           /\ n > m + 1 /\ LitAt(line, n, <<".", ".", ".">>, FALSE)
           /\ p > n + 3
           /\ StatusAt(line, p) # <<>>
        THEN <<Ev(SubSeq(line, 1, k - 1), StatusPassed(StatusAt(line, p)))>>
        ELSE <<>>

\* the tail \s+\d+\s+-\s+(\w+) of the TAP patterns, starting at index i:
\* the captured name, or <<>> when the tail does not match
TapTail(line, i) ==
    LET j == SpanEnd(line, i, SpaceChars)
        d == SpanEnd(line, j, Digits)
        e == SpanEnd(line, d, SpaceChars)
        f == SpanEnd(line, e + 1, SpaceChars)
        g == SpanEnd(line, f, WordChars)
    IN  IF /\ i <= Len(line) + 1
           /\ j > i /\ d > j /\ e > d
           /\ e <= Len(line) /\ line[e] = "-"
           /\ f > e + 1 /\ g > f
        THEN SubSeq(line, f, g - 1)
        ELSE <<>>

\* Pattern 4 (lines 687-693): /^ok\s+\d+\s+-\s+(\w+)/i
TapOkMatch(line) ==
    IF LitAt(line, 1, <<"o", "k">>, TRUE) /\ TapTail(line, 3) # <<>>
    THEN <<Ev(TapTail(line, 3), TRUE)>>
    ELSE <<>>

\* Pattern 5 (lines 695-701): /^not\s+ok\s+\d+\s+-\s+(\w+)/i
TapFailMatch(line) ==
    LET j == SpanEnd(line, 4, SpaceChars)
    IN  IF /\ LitAt(line, 1, <<"n", "o", "t">>, TRUE)
           /\ j > 4
           /\ LitAt(line, j, <<"o", "k">>, TRUE)
           /\ TapTail(line, j + 2) # <<>>
        THEN <<Ev(TapTail(line, j + 2), FALSE)>>
        ELSE <<>>

\* /Test\s+[^\s]+:([A-Za-z0-9_]+)/ matched at index i: the index of the ':'
\* the greedy [^\s]+ backtracks to (the last one followed by a name), or 0
DetailedColon(s, i) ==
    LET j == SpanEnd(s, i + 4, SpaceChars)
        e == SpanEnd(s, j, Chars(s) \ SpaceChars)
        Q == {q \in (j + 1)..(e - 1) :
                 s[q] = ":" /\ q + 1 <= Len(s) /\ s[q + 1] \in WordChars}
    IN  IF LitAt(s, i, <<"T", "e", "s", "t">>, FALSE) /\ j > i + 4 /\ Q # {}
        THEN CHOOSE q \in Q : \A r \in Q : r <= q
        ELSE 0

\* Pattern 6 (lines 703-710)
DetailedMatch(line) ==
    IF \E i \in 1..Len(line) : DetailedColon(line, i) # 0
    THEN LET i == CHOOSE i \in 1..Len(line) :
                      DetailedColon(line, i) # 0
                      /\ \A k \in 1..(i - 1) : DetailedColon(line, k) = 0
             q == DetailedColon(line, i)
         IN  <<Ev(SubSeq(line, q + 1, SpanEnd(line, q + 1, WordChars) - 1), FALSE)>>
    ELSE <<>>

\* parseLine with the detailed failure header tried first
ParseLineDetailedFirst(line) ==
    IF line = <<>> THEN <<>>
    ELSE IF DetailedMatch(line) # <<>> THEN DetailedMatch(line)
    ELSE IF CheckmarkMatch(line) # <<>> THEN CheckmarkMatch(line)
    ELSE IF ColonMatch(line) # <<>> THEN ColonMatch(line)
    ELSE IF VerboseMatch(line) # <<>> THEN VerboseMatch(line)
    ELSE IF TapOkMatch(line) # <<>> THEN TapOkMatch(line)
    ELSE TapFailMatch(line)

\* parseLine (lines 652-711): first recognizer that matches wins
ParseLine(line) ==
    IF line = <<>> THEN <<>>
    ELSE IF CheckmarkMatch(line) # <<>> THEN CheckmarkMatch(line)
    ELSE IF ColonMatch(line) # <<>> THEN ColonMatch(line)
    ELSE IF VerboseMatch(line) # <<>> THEN VerboseMatch(line)
    ELSE IF TapOkMatch(line) # <<>> THEN TapOkMatch(line)
    ELSE IF TapFailMatch(line) # <<>> THEN TapFailMatch(line)
    ELSE DetailedMatch(line)

\* the complete lines of the buffer, each trimmed (line 645)
RECURSIVE ParseLines(_)
ParseLines(lines) ==
    IF lines = <<>> THEN <<>>
    ELSE ParseLine(Trim(Head(lines))) \o ParseLines(Tail(lines))

TrimAll(lines) == [i \in 1..Len(lines) |-> Trim(lines[i])]

\* all but the last element (what is left after lines.pop())
Front(q) == SubSeq(q, 1, Len(q) - 1)
Last(q)  == q[Len(q)]

\* processChunk with the carried-over fragment dropped instead of prepended
ProcessChunkNoCarry(buffer, chunk) ==
    LET lines == Split(chunk)
    IN  [buffer |-> Last(lines),
         events |-> ParseLines(Front(lines)),
         lines  |-> TrimAll(Front(lines))]

\* processChunk (lines 636-647): the new buffer, the onTestResult calls and
\* the lines handed to parseLine
ProcessChunk(buffer, chunk) ==
    LET lines == Split(buffer \o chunk)
    IN  [buffer |-> Last(lines),
         events |-> ParseLines(Front(lines)),
         lines  |-> TrimAll(Front(lines))]

----------------------------------------------------------------------------
(* onOutput of executeTestWithStreaming and cleanCodeceptionOutput          *)
(* (src/src/testProvider.ts lines 582-589 and 1006-1044)                    *)

\* line.replace(/\x1B\[[0-9;]*[a-zA-Z]/g, '')
RECURSIVE StripAnsi(_)
StripAnsi(s) ==
    IF s = <<>> THEN <<>>
    ELSE IF /\ s[1] = ESC
            /\ Len(s) >= 2 /\ s[2] = "["
            /\ SpanEnd(s, 3, Digits \cup {";"}) <= Len(s)
            /\ s[SpanEnd(s, 3, Digits \cup {";"})] \in LowerLetters \cup UpperLetters
    THEN StripAnsi(Substring(s, SpanEnd(s, 3, Digits \cup {";"})))
    ELSE <<s[1]>> \o StripAnsi(Tail(s))

\* s.replace(/\s+/g, ' ')
RECURSIVE CollapseSpaces(_)
CollapseSpaces(s) ==
    IF s = <<>> THEN <<>>
    ELSE IF s[1] \in SpaceChars
    THEN <<SP>> \o CollapseSpaces(Substring(s, SpanEnd(s, 1, SpaceChars) - 1))
    ELSE <<s[1]>> \o CollapseSpaces(Tail(s))

\* String.prototype.trimEnd
TrimEnd(s) ==
    IF \A i \in 1..Len(s) : s[i] \in SpaceChars THEN <<>>
    ELSE SubSeq(s, 1, CHOOSE j \in 1..Len(s) :
                          /\ s[j] \notin SpaceChars
                          /\ \A k \in (j + 1)..Len(s) : s[k] \in SpaceChars)

\* the loop of cleanCodeceptionOutput (lines 1016-1041): the lines kept
RECURSIVE CleanLines(_, _)
CleanLines(lines, seenLines) ==
    IF lines = <<>> THEN <<>>
    ELSE LET line            == Head(lines)
             lineWithoutAnsi == Trim(StripAnsi(line))
             normalizedLine  == CollapseSpaces(lineWithoutAnsi)
         IN  IF lineWithoutAnsi = <<>>
             THEN <<<<>>>> \o CleanLines(Tail(lines), seenLines)
             ELSE IF /\ StartsWith(lineWithoutAnsi, <<"-">>)
                     /\ HCHK \notin Chars(lineWithoutAnsi)
                     /\ CROSS \notin Chars(lineWithoutAnsi)
             THEN CleanLines(Tail(lines), seenLines)
             ELSE IF normalizedLine \in seenLines
             THEN CleanLines(Tail(lines), seenLines)
             ELSE <<TrimEnd(line)>>
                  \o CleanLines(Tail(lines), seenLines \cup {normalizedLine})

\* processedLines.join('\r\n') + '\r\n'
RECURSIVE JoinCRLF(_)
JoinCRLF(lines) ==
    IF lines = <<>> THEN <<CR, NL>>
    ELSE IF Len(lines) = 1 THEN Head(lines) \o <<CR, NL>>
    ELSE Head(lines) \o <<CR, NL>> \o JoinCRLF(Tail(lines))

\* cleanCodeceptionOutput (lines 1006-1044)
CleanCodeceptionOutput(output) ==
    IF output = <<>> THEN <<>> ELSE JoinCRLF(CleanLines(Split(output), {}))

\* onOutput (lines 582-589): the text passed to run.appendOutput for one
\* chunk (<<>> when nothing is appended)
OnOutput(data) == CleanCodeceptionOutput(data)

----------------------------------------------------------------------------
(* The declared test tree (built by discovery, never changed by a run).     *)
(* Test ids have the form "suite:file::method"; a node is modelled with the *)
(* part of its id after '::' given by MethodName (<<>> when the id has no   *)
(* '::', i.e. for suites and files).                                        *)

Nodes == {"S", "F1", "F2", "M1", "M2", "M3", "S2", "F3", "M4",
          "S3", "F4", "M5", "M6"}

\* TestItem.children, in declaration order
Children(n) ==
    CASE n = "S"  -> <<"F1", "F2">>
      [] n = "F1" -> <<"M1", "M2">>
      [] n = "F2" -> <<"M3">>
      [] n = "S2" -> <<"F3">>
      [] n = "F3" -> <<"M4">>
      [] n = "S3" -> <<"F4">>
      [] n = "F4" -> <<"M5", "M6">>
      [] OTHER    -> <<>>

nTestA == <<"t", "e", "s", "t", "A">>
nA     == <<"a">>
nB     == <<"b">>

\* testId.split('::').pop() for ids that include '::' (lines 695-696)
MethodName(n) ==
    CASE n = "M1" -> nTestA
      [] n = "M2" -> nA
      [] n = "M3" -> nB
      [] n = "M4" -> nB
      [] n = "M5" -> nA
      [] n = "M6" -> nTestA
      [] OTHER    -> <<>>

Methods == {n \in Nodes : MethodName(n) # <<>>}

\* the file that declares a method
FileOf(n) == CHOOSE f \in Nodes : \E i \in 1..Len(Children(f)) : Children(f)[i] = n

\* the report file: whether it exists, what kind of content it has ("xml": a
\* JUnit document; "empty": nothing but white space; "unparseable": the
\* XML parser throws; "nosuites": no testsuite element) and its testcases
NoReport == [exists |-> FALSE, cases |-> <<>>, content |-> "xml"]

RunIdle ==
    /\ queue = <<>>
    /\ qi = 0
    /\ runEnded = FALSE
    /\ cancelRequested = FALSE
    /\ cancelledRuns = {}
    /\ outcome = [n \in Nodes |-> "Unset"]
    /\ inv = <<>>
    /\ proc = <<>>
    /\ timerLive = <<>>
    /\ execProcess = 0
    /\ timeoutHandle = 0
    /\ report = NoReport
    /\ lateReport = FALSE
    /\ atCancel = [at |-> 0, snap |-> [n \in Nodes |-> "Unset"]]

----------------------------------------------------------------------------
(* Text-level specification: one child process writes stdoutStream and      *)
(* stderrStream; Node delivers each as chunks cut at arbitrary places, the  *)
(* two channels interleaved arbitrarily.                                    *)

MaxLines == 2

\* output lines the runner prints (without the newline)
SampleLines ==
    { <<CHK, SP, "a">>,            \* glyph line, passed
      <<CROSS, SP, "b">>,          \* glyph line, failed
      <<"a", ":", "O", "K">>,      \* identifier: STATUS
      <<"t", CR>>,                 \* no recognizer matches; CR LF line end
      <<>> }                       \* empty line

\* what may follow the last newline of stdout
SampleTails == { <<>>, <<CHK, SP, "b">> }

SampleErrStreams == { <<>>, <<"b", NL>> }

RECURSIVE JoinLines(_)
JoinLines(ls) ==
    IF ls = <<>> THEN <<>> ELSE Head(ls) \o <<NL>> \o JoinLines(Tail(ls))

SeqsUpTo(S, n) == UNION {[1..k -> S] : k \in 0..n}

OutStreams == {JoinLines(ls) \o t : ls \in SeqsUpTo(SampleLines, MaxLines),
                                    t \in SampleTails}

TextIdle ==
    /\ stdoutStream = <<>>
    /\ stderrStream = <<>>
    /\ outPos = 0
    /\ errPos = 0
    /\ lineBuffer = <<>>
    /\ stderrBuffer = <<>>
    /\ events = <<>>
    /\ parsedLines = <<>>
    /\ splitLine = FALSE
    /\ streamClosed = FALSE
    /\ verbatim = TRUE

InitChunk ==
    /\ stdoutStream \in OutStreams
    /\ stderrStream \in SampleErrStreams
    /\ outPos = 0
    /\ errPos = 0
    /\ lineBuffer = <<>>       \* line 500
    /\ stderrBuffer = <<>>     \* line 501
    /\ events = <<>>
    /\ parsedLines = <<>>
    /\ splitLine = FALSE
    /\ streamClosed = FALSE
    /\ verbatim = TRUE
    /\ RunIdle

\* the chunk completes a line begun by an earlier chunk, and that line is
\* classified
CompletesSplitLine(buffer, chunk) ==
    /\ buffer # <<>>
    /\ NL \in Chars(chunk)
    /\ ParseLine(Trim(Head(Split(buffer \o chunk)))) # <<>>

\* both 'data' handlers call onOutput and end in processChunk on the one
\* lineBuffer
Deliver(chunk) ==
    LET r == ProcessChunk(lineBuffer, chunk)
    IN  /\ lineBuffer' = r.buffer
        /\ events' = events \o r.events
        /\ parsedLines' = parsedLines \o r.lines
        /\ splitLine' = (splitLine \/ CompletesSplitLine(lineBuffer, chunk))
        /\ verbatim' = (verbatim /\ OnOutput(chunk) = chunk)

\* stdout 'data' handler (lines 536-540)
StdoutData ==
    /\ ~streamClosed
    /\ \E n \in 1..(Len(stdoutStream) - outPos) :
          /\ Deliver(SubSeq(stdoutStream, outPos + 1, outPos + n))
          /\ outPos' = outPos + n
    /\ UNCHANGED <<stdoutStream, stderrStream, errPos, stderrBuffer, streamClosed>>
    /\ UNCHANGED runVars

\* stderr 'data' handler (lines 543-548)
StderrData ==
    /\ ~streamClosed
    /\ \E n \in 1..(Len(stderrStream) - errPos) :
          /\ stderrBuffer' = stderrBuffer \o SubSeq(stderrStream, errPos + 1, errPos + n)
          /\ Deliver(SubSeq(stderrStream, errPos + 1, errPos + n))
          /\ errPos' = errPos + n
    /\ UNCHANGED <<stdoutStream, stderrStream, outPos, streamClosed>>
    /\ UNCHANGED runVars

\* a 'close' handler that hands what is left in the buffer to parseLine
StreamCloseFlush ==
    /\ ~streamClosed
    /\ outPos = Len(stdoutStream)
    /\ errPos = Len(stderrStream)
    /\ events' = events \o ParseLine(Trim(lineBuffer))
    /\ parsedLines' = parsedLines \o <<Trim(lineBuffer)>>
    /\ lineBuffer' = <<>>
    /\ stderrBuffer' = <<>>
    /\ streamClosed' = TRUE
    /\ UNCHANGED <<stdoutStream, stderrStream, outPos, errPos, splitLine, verbatim>>
    /\ UNCHANGED runVars

\* 'close' handler, the cleanup() part (lines 552, 716-723); 'close' is
\* emitted after both streams have ended
StreamClose ==
    /\ ~streamClosed
    /\ outPos = Len(stdoutStream)
    /\ errPos = Len(stderrStream)
    /\ lineBuffer' = <<>>
    /\ stderrBuffer' = <<>>
    /\ streamClosed' = TRUE
    /\ UNCHANGED <<stdoutStream, stderrStream, outPos, errPos, events,
                   parsedLines, splitLine, verbatim>>
    /\ UNCHANGED runVars

NextChunk == StdoutData \/ StderrData \/ StreamClose

SpecChunk == InitChunk /\ [][NextChunk]_vars

----------------------------------------------------------------------------
(* Line-level specification: the child process prints one line of the       *)
(* catalogue on stdout and possibly a line on stderr; the handlers are      *)
(* those of the text-level specification.                                   *)

\* what a catalogue line starts with: text for one of the recognizers
\* anchored at the start of the line, or text for none of them
LineHeads ==
    { <<>>,
      <<"t">>,
      <<"a", ":", "O", "K">>,
      <<"A", ":", SP, "f", "a", "i", "l", "e", "d">>,
      <<"a", SP, "(", "f", ")", SP, ".", ".", ".", SP, "O", "K">>,
      <<"o", "k", SP, "1", SP, "-", SP, "a">>,
      <<"n", "o", "t", SP, "o", "k", SP, "2", SP, "-", SP, "a">> }

\* what follows on the same line: text for the recognizers that match
\* anywhere in the line
LineTails ==
    { <<>>,
      <<SP, CHK, SP, "b">>,
      <<SP, CROSS, SP, "b">>,
      <<SP, CROSS, SP, "b", SP, "(", "f", ")", SP, CHK>>,
      <<SP, CHK, SP, "b", SP, CROSS, SP, "d">>,
      <<SP, "T", "e", "s", "t", SP, "f", ":", "b">>,
      <<SP, "T", "e", "s", "t", SP, "f", ":", "b", SP, CROSS, SP, "d">> }

LineCatalogue == {h \o t : h \in LineHeads, t \in LineTails}

InitLine ==
    /\ stdoutStream \in {l \o <<NL>> : l \in LineCatalogue}
    /\ stderrStream \in SampleErrStreams
    /\ outPos = 0
    /\ errPos = 0
    /\ lineBuffer = <<>>       \* line 500
    /\ stderrBuffer = <<>>     \* line 501
    /\ events = <<>>
    /\ parsedLines = <<>>
    /\ splitLine = FALSE
    /\ streamClosed = FALSE
    /\ verbatim = TRUE
    /\ RunIdle

NextLine == StdoutData \/ StderrData \/ StreamClose

SpecLine == InitLine /\ [][NextLine]_vars

----------------------------------------------------------------------------
(* Properties of chunk handling *)

\* the complete lines of a stream, as parseLine would receive them
LinesOf(stream) == {Trim(Front(Split(stream))[i]) : i \in 1..(Len(Split(stream)) - 1)}

C4_PerChannelBuffer ==
    \A i \in 1..Len(parsedLines) :
        parsedLines[i] \in LinesOf(stdoutStream) \cup LinesOf(stderrStream)

----------------------------------------------------------------------------
(* Run level: pure parts of CodeceptionTestProvider and JunitParser         *)

\* Map.prototype.set on a map kept as a function
MapSet(m, k, v) == [x \in (DOMAIN m) \cup {k} |-> IF x = k THEN v ELSE m[x]]

EmptyMap == [x \in {} |-> TRUE]

\* the keys buildTestNameMap stores for one method name (lines 699-707),
\* in the order they are set; parseJUnitXml stores the same (lines 96-106)
NameVariants(name) ==
    <<name, ToLowerCase(name)>> \o
    (IF StartsWith(ToLowerCase(name), <<"t", "e", "s", "t">>)
     THEN <<Substring(name, 4), ToLowerCase(Substring(name, 4))>>
     ELSE <<>>)

RECURSIVE SetAll(_, _, _)
SetAll(m, keys, v) ==
    IF keys = <<>> THEN m ELSE SetAll(MapSet(m, Head(keys), v), Tail(keys), v)

\* buildTestNameMap.addTest (lines 692-713) and the loop over children
RECURSIVE AddTest(_, _)
RECURSIVE AddTests(_, _)
AddTest(m, test) ==
    AddTests(IF MethodName(test) # <<>>
             THEN SetAll(m, NameVariants(MethodName(test)), test)
             ELSE m,
             Children(test))
AddTests(m, tests) ==
    IF tests = <<>> THEN m ELSE AddTests(AddTest(m, Head(tests)), Tail(tests))

\* buildTestNameMap (lines 689-717)
BuildTestNameMap(parentTest) == AddTests(EmptyMap, Children(parentTest))

\* a markUnseenTests that marks nothing
MarkUnseenNone(o, seenTests, testNameMap) == o

\* markUnseenTests (lines 725-739): the node states after it ran
MarkUnseenTests(o, seenTests, testNameMap) ==
    [n \in Nodes |->
        IF \E testName \in DOMAIN testNameMap :
               testNameMap[testName] = n /\ testName \notin seenTests
        THEN "Passed"
        ELSE o[n]]

\* ---- JunitParser ----
\* A testcase of the report: the file (classname) it belongs to, its name
\* attribute and the status parseTestCase derives (lines 144-170).
\* The result Map of parseJUnitXml is kept in insertion order as a sequence
\* of <<key, testcase>> pairs with distinct keys.

OMapHas(om, key) == \E i \in 1..Len(om) : om[i][1] = key

OMapGet(om, key) == om[CHOOSE i \in 1..Len(om) : om[i][1] = key][2]

\* Map.prototype.set: a present key keeps its place and takes the new value
OMapSet(om, key, val) ==
    IF OMapHas(om, key)
    THEN [i \in 1..Len(om) |-> IF om[i][1] = key THEN <<key, val>> ELSE om[i]]
    ELSE Append(om, <<key, val>>)

RECURSIVE OMapSetAll(_, _, _)
OMapSetAll(om, keys, val) ==
    IF keys = <<>> THEN om
    ELSE OMapSetAll(OMapSet(om, Head(keys), val), Tail(keys), val)

\* parseJUnitXml, the loop over testcases (lines 83-108)
RECURSIVE StoreTestcases(_, _)
StoreTestcases(om, cases) ==
    IF cases = <<>> THEN om
    ELSE StoreTestcases(OMapSetAll(om, NameVariants(Head(cases).name), Head(cases)),
                        Tail(cases))

\* parseJUnitXml without the checks of the content
ParseJUnitXmlUnchecked(file) == StoreTestcases(<<>>, file.cases)

\* parseJUnitXml (lines 30-118): an absent file (line 55), an empty one
\* (line 63), one the XML parser rejects (caught at line 112) and one
\* without test suites (line 78) give the empty Map
ParseJUnitXml(file) ==
    IF file.exists /\ file.content = "xml"
    THEN StoreTestcases(<<>>, file.cases)
    ELSE <<>>

\* the node state reconciliation reports for a testcase (lines 885-898 and
\* 906-918): passed iff status is 'passed', failed otherwise
XmlOutcome(xmlResult) == IF xmlResult.status = "passed" THEN "Passed" ELSE "Failed"

\* one iteration of the loop of reconcileWithXmlResults (lines 862-920) on
\* st = [o: node states, seen: seenTests, calls: for every key for which
\* run.passed / run.failed was called, <<key, test item, testcase>>]
ReconcileEntry(st, xmlResults, i, testNameMap, testResults) ==
    LET testName  == xmlResults[i][1]
        xmlResult == xmlResults[i][2]
    IN  IF ToLowerCase(testName) # testName /\ OMapHas(xmlResults, ToLowerCase(testName))
        THEN st
        ELSE IF testName \notin DOMAIN testNameMap
        THEN st
        ELSE LET testItem        == testNameMap[testName]
                 xmlPassed       == xmlResult.status = "passed"
                 streamingPassed == IF testName \in DOMAIN testResults
                                    THEN testResults[testName] ELSE TRUE
                 o1 == IF xmlPassed # streamingPassed
                       THEN [st.o EXCEPT ![testItem] = XmlOutcome(xmlResult)]
                       ELSE st.o
                 calls1 == IF xmlPassed # streamingPassed \/ testName \notin st.seen
                           THEN Append(st.calls, <<testName, testItem, xmlResult>>)
                           ELSE st.calls
             IN  IF testName \notin st.seen
                 THEN [o     |-> [o1 EXCEPT ![testItem] = XmlOutcome(xmlResult)],
                       seen  |-> st.seen \cup {testName},
                       calls |-> calls1]
                 ELSE [o |-> o1, seen |-> st.seen, calls |-> calls1]

RECURSIVE ReconcileFrom(_, _, _, _, _)
ReconcileFrom(st, xmlResults, i, testNameMap, testResults) ==
    IF i > Len(xmlResults) THEN st
    ELSE ReconcileFrom(ReconcileEntry(st, xmlResults, i, testNameMap, testResults),
                       xmlResults, i + 1, testNameMap, testResults)

\* reconcileWithXmlResults after the file was read (lines 846-926)
Reconcile(o, seenTests, testNameMap, testResults, file) ==
    ReconcileFrom([o |-> o, seen |-> seenTests, calls |-> <<>>], ParseJUnitXml(file), 1,
                  testNameMap, testResults)

----------------------------------------------------------------------------
(* Run level: the state machine of runTests / executeTestWithStreaming /    *)
(* StreamingTestExecutor.executeWithStreaming.                              *)
(*                                                                          *)
(* One action is one task of the Node event loop: an event handler or a     *)
(* timer callback together with every promise continuation (microtask) it   *)
(* releases.  The continuations are written as functions on the record st   *)
(* of the variables they change.                                            *)

MaxReport == 2

\* the requests modelled: items that have children (runTest streams them,
\* line 1186)
Queues == { <<"F1">>, <<"S">>, <<"F2", "F3">> }

\* identifiers the runner may print on a result line
StreamNames == {nTestA, ToLowerCase(nTestA), nA, nB}

\* the method nodes below a node
RECURSIVE MethodsUnder(_)
MethodsUnder(n) ==
    IF MethodName(n) # <<>> THEN {n}
    ELSE UNION {MethodsUnder(Children(n)[i]) : i \in 1..Len(Children(n))}

\* the File items at or below a node
FilesUnder(n) == {FileOf(m) : m \in MethodsUnder(n)}

\* the reports the runner may write for a target: at most MaxReport
\* testcases, at most one per method of the target
CasesFor(target) ==
    {[file |-> FileOf(m), name |-> MethodName(m), status |-> st] :
        m \in MethodsUnder(target), st \in {"passed", "failed"}}

ReportsFor(target) ==
    {cs \in SeqsUpTo(CasesFor(target), MaxReport) :
        \A i, j \in 1..Len(cs) :
            (cs[i].file = cs[j].file /\ cs[i].name = cs[j].name) => i = j}

\* the closure of one executeTestWithStreaming call (lines 570-576) and the
\* promise of executeWithStreaming
NewInv ==
    [seen     |-> {},         \* seenTests
     results  |-> EmptyMap,   \* testResults: name -> passed
     fatal    |-> FALSE,      \* allOutput holds a fatal-error marker
     fatalFile |-> "none",    \* the File item the marker's location names
     docker   |-> FALSE,      \* allOutput holds a Docker error text
     promise  |-> "none",     \* none | pending | resolved | rejected
     complete |-> "none",     \* onComplete: none | waiting | reading | done
     exitCode |-> 0]

NoProc == [state |-> "none", killed |-> FALSE]

Init ==
    /\ TextIdle
    /\ queue \in Queues
    /\ qi = 0
    /\ runEnded = FALSE
    /\ cancelRequested = FALSE
    /\ cancelledRuns = {}
    /\ outcome = [n \in Nodes |-> "Unset"]
    /\ inv = [k \in 1..Len(queue) |-> NewInv]
    /\ proc = [k \in 1..Len(queue) |-> NoProc]
    /\ timerLive = [k \in 1..Len(queue) |-> FALSE]
    /\ execProcess = 0
    /\ timeoutHandle = 0
    /\ report = NoReport
    /\ lateReport = FALSE
    /\ atCancel = [at |-> 0, snap |-> [n \in Nodes |-> "Unset"]]

Cur ==
    [outcome |-> outcome, inv |-> inv, proc |-> proc, timerLive |-> timerLive,
     execProcess |-> execProcess, timeoutHandle |-> timeoutHandle,
     qi |-> qi, runEnded |-> runEnded, lateReport |-> lateReport]

Commit(st) ==
    /\ outcome' = st.outcome
    /\ inv' = st.inv
    /\ proc' = st.proc
    /\ timerLive' = st.timerLive
    /\ execProcess' = st.execProcess
    /\ timeoutHandle' = st.timeoutHandle
    /\ qi' = st.qi
    /\ runEnded' = st.runEnded
    /\ lateReport' = st.lateReport

\* run.started / run.passed / run.failed / run.skipped on one node
SetState(st, n, v) ==
    [st EXCEPT !.outcome[n] = v, !.lateReport = @ \/ st.runEnded]

\* the same for a whole new table of node states
SetStates(st, o) ==
    [st EXCEPT !.outcome = o, !.lateReport = @ \/ (st.runEnded /\ o # st.outcome)]

\* StreamingTestExecutor.cleanup (lines 716-723)
Cleanup(st) ==
    [st EXCEPT !.timerLive = IF st.timeoutHandle # 0
                             THEN [@ EXCEPT ![st.timeoutHandle] = FALSE]
                             ELSE @,
               !.timeoutHandle = 0]

\* this.process.kill('SIGTERM') guarded by this.process && !this.process.killed
\* (lines 527-529, 583-585); killed is set only when the signal was sent
KillCurrent(st) ==
    IF st.execProcess # 0 /\ ~st.proc[st.execProcess].killed
       /\ st.proc[st.execProcess].state = "running"
    THEN [st EXCEPT !.proc[st.execProcess].killed = TRUE]
    ELSE st

\* runTest up to the spawn (lines 1169-1187) and executeWithStreaming up to
\* the registration of the handlers (lines 518-533) for queue item k
StartInvocation(st, k) ==
    [SetState(st, queue[k], "Running") EXCEPT
        !.qi = k,
        !.inv[k] = [NewInv EXCEPT !.promise = "pending"],
        !.proc[k] = [state |-> "running", killed |-> FALSE],
        !.execProcess = k,
        !.timeoutHandle = k,
        !.timerLive[k] = TRUE]

\* the loop of runTests after the item at st.qi returned (lines 343-354)
AdvanceLoop(st, cancelled) ==
    IF st.qi + 1 > Len(queue)
    THEN [st EXCEPT !.qi = Len(queue) + 1, !.runEnded = TRUE]
    ELSE IF cancelled
    THEN [SetStates(st, [n \in Nodes |->
                           IF \E j \in (st.qi + 1)..Len(queue) : queue[j] = n
                           THEN "Skipped" ELSE st.outcome[n]])
            EXCEPT !.qi = Len(queue) + 1, !.runEnded = TRUE]
    ELSE StartInvocation(st, st.qi + 1)

\* the catch block of executeTestWithStreaming (lines 641-682);
\* dockerMsg: the error message itself is a Docker error text
Catch(st, k, cancelled, dockerMsg) ==
    IF dockerMsg \/ st.inv[k].docker
    THEN SetState(st, queue[k], "Failed")
    ELSE IF cancelled
    THEN SetStates(st, MarkUnseenTests(st.outcome, st.inv[k].seen,
                                       BuildTestNameMap(queue[k])))
    ELSE SetState(st, queue[k], "Failed")

\* reject(...) of the promise of invocation k, and what awaits it
Reject(st, k, cancelled, dockerMsg) ==
    IF st.inv[k].promise = "pending"
    THEN AdvanceLoop(Catch([st EXCEPT !.inv[k].promise = "rejected"],
                           k, cancelled, dockerMsg),
                     cancelled)
    ELSE st

\* resolve() of the promise of invocation k, and what awaits it
Resolve(st, k, cancelled) ==
    IF st.inv[k].promise = "pending"
    THEN AdvanceLoop([st EXCEPT !.inv[k].promise = "resolved"], cancelled)
    ELSE st

\* onTestResult that records a name the map does not hold
OnTestResultRecordsUnknown(st, k, testName, passed) ==
    IF testName \notin st.inv[k].seen
    THEN [(IF testName \in DOMAIN BuildTestNameMap(queue[k])
           THEN SetState(st, BuildTestNameMap(queue[k])[testName],
                         IF passed THEN "Passed" ELSE "Failed")
           ELSE st)
            EXCEPT !.inv[k].seen = @ \cup {testName},
                   !.inv[k].results = MapSet(@, testName, passed)]
    ELSE st

\* onTestResult (lines 590-614)
OnTestResult(st, k, testName, passed) ==
    IF testName \in DOMAIN BuildTestNameMap(queue[k])
       /\ testName \notin st.inv[k].seen
    THEN [SetState(st, BuildTestNameMap(queue[k])[testName],
                   IF passed THEN "Passed" ELSE "Failed")
            EXCEPT !.inv[k].seen = @ \cup {testName},
                   !.inv[k].results = MapSet(@, testName, passed)]
    ELSE st

\* onComplete, the part after reconcileWithXmlResults returned (lines 622-634)
ParentVerdict(st, k) ==
    LET r == st.inv[k].results
        hasFailures == \/ st.inv[k].exitCode # 0
                       \/ st.inv[k].fatal
                       \/ \E t \in DOMAIN r : ~r[t]
    IN  [SetState(st, queue[k], IF hasFailures THEN "Failed" ELSE "Passed")
            EXCEPT !.inv[k].complete = "done"]

\* onComplete up to the first await (lines 616-620, 826-831)
OnCompleteStart(st, k, exitCode) ==
    [SetStates(st, MarkUnseenTests(st.outcome, st.inv[k].seen,
                                   BuildTestNameMap(queue[k])))
        EXCEPT !.inv[k].complete = "waiting", !.inv[k].exitCode = exitCode]

\* ---- actions ----

\* runTests is called (lines 317-350): the run is created and the first
\* item started
RunTests ==
    /\ qi = 0
    /\ Commit(StartInvocation(Cur, 1))
    /\ UNCHANGED <<queue, cancelRequested, cancelledRuns, report, atCancel>>
    /\ UNCHANGED textVars

\* a 'data' event whose chunk is one complete result line naming testName
\* (lines 536-548 with onOutput and onTestResult)
ResultLine(k) ==
    /\ proc[k].state = "running"
    /\ \E testName \in StreamNames, passed \in BOOLEAN :
          Commit(OnTestResult(Cur, k, testName, passed))
    /\ UNCHANGED <<queue, cancelRequested, cancelledRuns, report, atCancel>>
    /\ UNCHANGED textVars

\* a 'data' event whose chunk holds a PHP fatal-error marker: onOutput adds
\* it to allOutput (line 584); no recognizer of parseLine matches it.  The
\* marker names a file of the target or no file of it; the first marker in
\* allOutput is the one extractFatalErrorInfo finds (lines 1555-1595)
FatalLine(k) ==
    /\ proc[k].state = "running"
    /\ \E f \in FilesUnder(queue[k]) \cup {"none"} :
          Commit([Cur EXCEPT !.inv[k].fatal = TRUE,
                             !.inv[k].fatalFile = IF inv[k].fatal THEN @ ELSE f])
    /\ UNCHANGED <<queue, cancelRequested, cancelledRuns, report, atCancel>>
    /\ UNCHANGED textVars

\* a 'data' event whose chunk holds a Docker error text (what isDockerError
\* looks for, lines 1623-1635)
DockerLine(k) ==
    /\ proc[k].state = "running"
    /\ Commit([Cur EXCEPT !.inv[k].docker = TRUE])
    /\ UNCHANGED <<queue, cancelRequested, cancelledRuns, report, atCancel>>
    /\ UNCHANGED textVars

\* 'close' of a process that was not sent SIGTERM (lines 551-562): the
\* runner has written its report or none; code is the exit code, 0 also
\* standing for a null code
CloseNormal(k) ==
    /\ proc[k].state = "running"
    /\ ~proc[k].killed
    /\ \E code \in {0, 1} :
          Commit(Resolve(OnCompleteStart(
                           Cleanup([Cur EXCEPT !.proc[k].state = "closed"]),
                           k, code),
                         k, cancelRequested))
    /\ \E written \in ReportsFor(queue[k]) :
          report' = IF written = <<>> THEN report
                    ELSE [exists |-> TRUE, cases |-> written, content |-> "xml"]
    /\ UNCHANGED <<queue, cancelRequested, cancelledRuns, atCancel>>
    /\ UNCHANGED textVars

\* a 'close' with signal SIGTERM that completes the run like a normal one
CloseTerminatedCompletes(k) ==
    /\ proc[k].state = "running"
    /\ proc[k].killed
    /\ Commit(Resolve(OnCompleteStart(
                       Cleanup([Cur EXCEPT !.proc[k].state = "closed"]), k, 0),
                     k, cancelRequested))
    /\ UNCHANGED <<queue, cancelRequested, cancelledRuns, report, atCancel>>
    /\ UNCHANGED textVars

\* 'close' with signal SIGTERM (lines 551-557)
CloseTerminated(k) ==
    /\ proc[k].state = "running"
    /\ proc[k].killed
    /\ Commit(Reject(Cleanup([Cur EXCEPT !.proc[k].state = "closed"]),
                     k, cancelRequested, FALSE))
    /\ UNCHANGED <<queue, cancelRequested, cancelledRuns, report, atCancel>>
    /\ UNCHANGED textVars

\* 'error' of the child process: it could not be spawned (lines 565-569,
\* onError lines 636-639)
ProcessError(k) ==
    /\ proc[k].state = "running"
    /\ ~proc[k].killed
    /\ inv[k].seen = {} /\ ~inv[k].fatal /\ ~inv[k].docker
    /\ \E dockerMsg \in BOOLEAN :
          Commit(Reject(SetState(Cleanup([Cur EXCEPT !.proc[k].state = "closed"]),
                                 queue[k], "Failed"),
                        k, cancelRequested, dockerMsg))
    /\ UNCHANGED <<queue, cancelRequested, cancelledRuns, report, atCancel>>
    /\ UNCHANGED textVars

\* the timeout callback of invocation k (lines 526-532)
Timeout(k) ==
    /\ timerLive[k]
    /\ LET st == [Cur EXCEPT !.timerLive[k] = FALSE]
       IN  IF st.execProcess # 0 /\ ~st.proc[st.execProcess].killed
           THEN Commit(Reject(KillCurrent(st), k, cancelRequested, FALSE))
           ELSE Commit(st)
    /\ UNCHANGED <<queue, cancelRequested, cancelledRuns, report, atCancel>>
    /\ UNCHANGED textVars

\* the user cancels the run: the handler of line 338 calls
\* StreamingTestExecutor.cancel (lines 582-587)
Cancel ==
    /\ qi > 0
    /\ ~runEnded
    /\ ~cancelRequested
    /\ cancelRequested' = TRUE
    /\ atCancel' = [at   |-> IF execProcess # 0 /\ proc[execProcess].state = "running"
                             THEN execProcess ELSE 0,
                    snap |-> outcome]
    /\ Commit(Cleanup(KillCurrent(Cur)))
    /\ UNCHANGED <<queue, report, cancelledRuns>>
    /\ UNCHANGED textVars

\* reconcileWithXmlResults after its 300 ms wait (lines 831-850): without a
\* report file it returns and onComplete finishes; with one, the read starts
ReportWaitOver(k) ==
    /\ inv[k].complete = "waiting"
    /\ IF report.exists
       THEN Commit([Cur EXCEPT !.inv[k].complete = "reading"])
       ELSE Commit(ParentVerdict(Cur, k))
    /\ UNCHANGED <<queue, cancelRequested, cancelledRuns, report, atCancel>>
    /\ UNCHANGED textVars

\* the report was read and parsed: the loop of reconcileWithXmlResults
\* (lines 852-926), then the rest of onComplete (lines 622-634)
ReconcileStep(k) ==
    /\ inv[k].complete = "reading"
    /\ LET r == Reconcile(outcome, inv[k].seen, BuildTestNameMap(queue[k]),
                          inv[k].results, report)
       IN  Commit(ParentVerdict(
                    [SetStates(Cur, r.o) EXCEPT !.inv[k].seen = r.seen], k))
    /\ UNCHANGED <<queue, cancelRequested, cancelledRuns, report, atCancel>>
    /\ UNCHANGED textVars

Next ==
    \/ RunTests
    \/ Cancel
    \/ \E k \in 1..Len(queue) : ResultLine(k)
    \/ \E k \in 1..Len(queue) : FatalLine(k)
    \/ \E k \in 1..Len(queue) : DockerLine(k)
    \/ \E k \in 1..Len(queue) : CloseNormal(k)
    \/ \E k \in 1..Len(queue) : CloseTerminated(k)
    \/ \E k \in 1..Len(queue) : ProcessError(k)
    \/ \E k \in 1..Len(queue) : Timeout(k)
    \/ \E k \in 1..Len(queue) : ReportWaitOver(k)
    \/ \E k \in 1..Len(queue) : ReconcileStep(k)

Spec == Init /\ [][Next]_vars

----------------------------------------------------------------------------
(* Buffered path: the catch block of runTest with parseAndMarkChildren.     *)
(* The arguments are what runTest derives from the failed command's output: *)
(* testResults is the Map parseTestResults returns (name -> passed),        *)
(* hasFatalError the value of detectFatalError, fatalErrorInfo the value of *)
(* extractFatalErrorInfo.  fatalErrorInfo is "null", "nofile" (a message    *)
(* without a location), the File item whose path contains the reported      *)
(* file, or "elsewhere" (a path that no item's path contains).              *)

\* childFilePath && childFilePath.includes(fatalErrorInfo.file || '')
\* (lines 1321-1322); a method item carries the path of its file
IsFatalErrorFile(child, fatalErrorInfo) ==
    \/ fatalErrorInfo = "nofile"
    \/ child = fatalErrorInfo
    \/ child \in Methods /\ FileOf(child) = fatalErrorInfo

\* the local counters of parseAndMarkChildren (lines 1310-1313) with the
\* table of node states
NewMarks(o) ==
    [o |-> o, foundAnyResults |-> FALSE, allChildrenPassed |-> TRUE,
     someChildrenFailed |-> FALSE, ranChildrenCount |-> 0,
     fileHadResults |-> FALSE, fileAllPassed |-> TRUE,
     fileSomeFailed |-> FALSE, fileRanCount |-> 0]

\* early-abort branch: every method of the file is marked failed
\* (lines 1330-1334)
RECURSIVE FailMethods(_, _)
FailMethods(o, methods) ==
    IF methods = <<>> THEN o
    ELSE FailMethods([o EXCEPT ![Head(methods)] = "Failed"], Tail(methods))

\* early-abort branch, one child (lines 1320-1341)
RECURSIVE AbortChildren(_, _, _)
AbortChildren(a, children, fatalErrorInfo) ==
    IF children = <<>> THEN a
    ELSE LET child == Head(children)
             a1 == IF IsFatalErrorFile(child, fatalErrorInfo) /\ Children(child) # <<>>
                   THEN [a EXCEPT !.o = [FailMethods(a.o, Children(child))
                                            EXCEPT ![child] = "Failed"],
                                  !.foundAnyResults = TRUE,
                                  !.someChildrenFailed = TRUE]
                   ELSE a
         IN  AbortChildren(a1, Tail(children), fatalErrorInfo)

\* normal branch, one method of a file (lines 1356-1385)
MarkMethod(a, methodTest, testResults) ==
    LET methodName == MethodName(methodTest)
    IN  IF methodName \in DOMAIN testResults
        THEN IF testResults[methodName]
             THEN [a EXCEPT !.o[methodTest] = "Passed",
                            !.fileHadResults = TRUE, !.foundAnyResults = TRUE,
                            !.ranChildrenCount = @ + 1, !.fileRanCount = @ + 1]
             ELSE [a EXCEPT !.o[methodTest] = "Failed",
                            !.fileHadResults = TRUE, !.foundAnyResults = TRUE,
                            !.ranChildrenCount = @ + 1, !.fileRanCount = @ + 1,
                            !.fileAllPassed = FALSE, !.fileSomeFailed = TRUE,
                            !.allChildrenPassed = FALSE, !.someChildrenFailed = TRUE]
        ELSE [a EXCEPT !.o[methodTest] = "Passed",
                       !.fileHadResults = TRUE,
                       !.ranChildrenCount = @ + 1, !.fileRanCount = @ + 1]

RECURSIVE MarkMethods(_, _, _)
MarkMethods(a, methods, testResults) ==
    IF methods = <<>> THEN a
    ELSE MarkMethods(MarkMethod(a, Head(methods), testResults), Tail(methods),
                     testResults)

\* normal branch, a child that has children (lines 1349-1400)
MarkFile(a, child, testResults) ==
    LET a1 == MarkMethods([a EXCEPT !.fileHadResults = FALSE, !.fileAllPassed = TRUE,
                                    !.fileSomeFailed = FALSE, !.fileRanCount = 0],
                          Children(child), testResults)
    IN  IF a1.fileHadResults /\ a1.fileSomeFailed
        THEN [a1 EXCEPT !.o[child] = "Failed"]
        ELSE IF a1.fileHadResults /\ a1.fileAllPassed
                /\ a1.fileRanCount = Len(Children(child))
        THEN [a1 EXCEPT !.o[child] = "Passed"]
        ELSE a1

\* normal branch, a child without children (lines 1401-1423)
MarkLeaf(a, child, testResults) ==
    LET methodName == MethodName(child)
    IN  IF methodName \in DOMAIN testResults
        THEN IF testResults[methodName]
             THEN [a EXCEPT !.o[child] = "Passed", !.foundAnyResults = TRUE,
                            !.ranChildrenCount = @ + 1]
             ELSE [a EXCEPT !.o[child] = "Failed", !.foundAnyResults = TRUE,
                            !.ranChildrenCount = @ + 1,
                            !.allChildrenPassed = FALSE, !.someChildrenFailed = TRUE]
        ELSE [a EXCEPT !.o[child] = "Passed", !.ranChildrenCount = @ + 1]

\* normal branch (lines 1344-1424): run.started(child), then the marks
RECURSIVE MarkChildren(_, _, _)
MarkChildren(a, children, testResults) ==
    IF children = <<>> THEN a
    ELSE LET child == Head(children)
             a0 == [a EXCEPT !.o[child] = "Running"]
             a1 == IF Children(child) # <<>>
                   THEN MarkFile(a0, child, testResults)
                   ELSE MarkLeaf(a0, child, testResults)
         IN  MarkChildren(a1, Tail(children), testResults)

\* totalChildren (lines 1433-1435)
RECURSIVE TotalChildren(_)
TotalChildren(children) ==
    IF children = <<>> THEN 0
    ELSE (IF Children(Head(children)) # <<>> THEN Len(Children(Head(children))) ELSE 1)
         + TotalChildren(Tail(children))

\* a parent verdict that does not ask whether results were found
MarkParentAlways(a, parentTest, hasFailures) ==
    [a.o EXCEPT ![parentTest] = IF a.someChildrenFailed \/ hasFailures
                                THEN "Failed" ELSE "Passed"]

\* the parent verdict of parseAndMarkChildren (lines 1427-1445)
MarkParent(a, parentTest, hasFailures) ==
    IF ~a.foundAnyResults THEN a.o
    ELSE IF a.someChildrenFailed \/ hasFailures
    THEN [a.o EXCEPT ![parentTest] = "Failed"]
    ELSE IF a.allChildrenPassed
            /\ a.ranChildrenCount = TotalChildren(Children(parentTest))
    THEN [a.o EXCEPT ![parentTest] = "Passed"]
    ELSE a.o

\* parseAndMarkChildren (lines 1291-1446): the node states after it ran
ParseAndMarkChildren(o, parentTest, testResults, hasFatalError, fatalErrorInfo, hasFailures) ==
    LET executionStoppedEarly == hasFatalError /\ DOMAIN testResults = {}
        a == IF executionStoppedEarly /\ fatalErrorInfo # "null"
             THEN AbortChildren(NewMarks(o), Children(parentTest), fatalErrorInfo)
             ELSE MarkChildren(NewMarks(o), Children(parentTest), testResults)
    IN  MarkParent(a, parentTest, hasFailures)

\* the items that have children
Containers == {n \in Nodes : Children(n) # <<>>}

\* the Maps parseTestResults may return for the declared names
ResultMaps == UNION {[ns -> BOOLEAN] : ns \in SUBSET {nTestA, nA, nB}}

\* the arguments runTest's catch block passes (lines 1275-1282): hasFailures
\* includes hasFatalError; extractFatalErrorInfo is called only when
\* hasFatalError
MarkArgs ==
    {[testResults |-> tr, hasFatalError |-> hf, fatalErrorInfo |-> fi,
      hasFailures |-> fl] :
        tr \in ResultMaps, hf \in BOOLEAN, fl \in BOOLEAN,
        fi \in {"null", "nofile", "elsewhere"} \cup {n \in Containers : FilesUnder(n) = {n}}}

InitMark ==
    /\ TextIdle
    /\ queue \in {<<p>> : p \in Containers}
    /\ qi = 1
    /\ runEnded = FALSE
    /\ cancelRequested = FALSE
    /\ cancelledRuns = {}
    /\ outcome = [n \in Nodes |-> IF n = queue[1] THEN "Running" ELSE "Unset"]
    /\ inv \in {<<a>> : a \in {x \in MarkArgs :
                                 /\ x.hasFatalError => x.hasFailures
                                 /\ ~x.hasFatalError => x.fatalErrorInfo = "null"}}
    /\ proc = <<NoProc>>
    /\ timerLive = <<FALSE>>
    /\ execProcess = 0
    /\ timeoutHandle = 0
    /\ report = NoReport
    /\ lateReport = FALSE
    /\ atCancel = [at |-> 0, snap |-> [n \in Nodes |-> "Unset"]]

\* the catch block of runTest for an item with children and output
\* (lines 1226-1283), then the end of the loop of runTests and run.end()
RunTestCatch ==
    /\ ~runEnded
    /\ outcome' = ParseAndMarkChildren(outcome, queue[1], inv[1].testResults,
                                       inv[1].hasFatalError, inv[1].fatalErrorInfo,
                                       inv[1].hasFailures)
    /\ runEnded' = TRUE
    /\ qi' = 2
    /\ UNCHANGED <<queue, cancelRequested, cancelledRuns, inv, proc, timerLive, execProcess,
                   timeoutHandle, report, lateReport, atCancel>>
    /\ UNCHANGED textVars

NextMark == RunTestCatch

SpecMark == InitMark /\ [][NextMark]_vars

----------------------------------------------------------------------------
(* Fatal-error detection and extraction on the text of the output          *)
(* (src/src/testProvider.ts lines 1542-1595)                                *)

\* String.prototype.includes, and a pattern without anchors under /i
Includes(s, lit) == \E i \in 1..Len(s) : LitAt(s, i, lit, FALSE)
IncludesCI(s, lit) == \E i \in 1..Len(s) : LitAt(s, i, lit, TRUE)

\* stdout + '\n' + stderr (lines 1551, 1556)
CombinedOutput(stdout, stderr) == stdout \o <<NL>> \o stderr

\* detectFatalError (lines 1542-1553)
DetectFatalError(stdout, stderr) ==
    LET combinedOutput == CombinedOutput(stdout, stderr)
    IN  \/ IncludesCI(combinedOutput, <<"P", "H", "P", SP, "F", "a", "t", "a", "l", SP, "E", "r", "r", "o", "r">>)
        \/ IncludesCI(combinedOutput, <<"P", "H", "P", SP, "F", "a", "t", "a", "l", SP, "e", "r", "r", "o", "r", ":">>)
        \/ IncludesCI(combinedOutput, <<"F", "a", "t", "a", "l", SP, "e", "r", "r", "o", "r", ":">>)
        \/ IncludesCI(combinedOutput, <<"<", "p", "r", "e", ">", "P", "H", "P", SP, "F", "a", "t", "a", "l">>)

\* what extractFatalErrorInfo returns: matched FALSE stands for null,
\* hasFile FALSE for a result without file and line
NoInfo ==
    [matched |-> FALSE, message |-> <<>>, hasFile |-> FALSE, file |-> <<>>,
     line |-> <<>>]

Info(message, file, line) ==
    [matched |-> TRUE, message |-> message, hasFile |-> TRUE, file |-> file,
     line |-> line]

InfoMessage(message) ==
    [matched |-> TRUE, message |-> message, hasFile |-> FALSE, file |-> <<>>,
     line |-> <<>>]

\* the tail [^<]*in\s+([^\s:]+):(\d+) of the wrapped form with 'in' at
\* index p: the index of the ':' or 0
HtmlLocation(s, p) ==
    LET f == SpanEnd(s, p + 2, SpaceChars)
        g == SpanEnd(s, f, Chars(s) \ (SpaceChars \cup {":"}))
    IN  IF /\ LitAt(s, p, <<"i", "n">>, TRUE)
           /\ f > p + 2 /\ g > f /\ g <= Len(s) /\ s[g] = ":"
           /\ SpanEnd(s, g + 1, Digits) > g + 1
        THEN g ELSE 0

\* /<pre>PHP Fatal (?:Error|error)[^']*'([^']*)'[^']*with message\s+
\*  '([^']*)'[^<]*in\s+([^\s:]+):(\d+)/i matched at index i (lines 1560-1562)
HtmlAt(s, i) ==
    LET NotQuote == Chars(s) \ {"'"}
        q1 == SpanEnd(s, i + 20, NotQuote)
        q2 == SpanEnd(s, q1 + 1, NotQuote)
        b  == SpanEnd(s, q2 + 1, NotQuote)
        W  == {w \in (q2 + 1)..(b - 13) :
                  /\ LitAt(s, w, <<"w", "i", "t", "h", SP, "m", "e", "s", "s", "a", "g", "e">>, TRUE)
                  /\ SpanEnd(s, w + 12, SpaceChars) = b}
        c  == SpanEnd(s, b + 1, NotQuote)
        P  == {p \in (c + 1)..Len(s) :
                  /\ \A k \in (c + 1)..(p - 1) : s[k] # "<"
                  /\ HtmlLocation(s, p) # 0}
    IN  IF /\ LitAt(s, i, <<"<", "p", "r", "e", ">", "P", "H", "P", SP, "F", "a", "t", "a", "l", SP>>, TRUE)
           /\ LitAt(s, i + 15, <<"E", "r", "r", "o", "r">>, TRUE)
           /\ q1 <= Len(s) /\ q2 <= Len(s) /\ b <= Len(s) /\ W # {}
           /\ c <= Len(s) /\ P # {}
        THEN LET p == CHOOSE p \in P : \A r \in P : r <= p
                 g == HtmlLocation(s, p)
                 f == SpanEnd(s, p + 2, SpaceChars)
             IN  Info(SubSeq(s, q1 + 1, q2 - 1) \o <<":", SP>> \o SubSeq(s, b + 1, c - 1),
                      SubSeq(s, f, g - 1),
                      SubSeq(s, g + 1, SpanEnd(s, g + 1, Digits) - 1))
        ELSE NoInfo

\* the least element of a set of indexes (the leftmost match)
Least(M) == CHOOSE i \in M : \A k \in M : i <= k

\* Pattern 1 (lines 1558-1570)
HtmlErrorMatch(s) ==
    LET M == {i \in 1..Len(s) : HtmlAt(s, i).matched}
    IN  IF M = {} THEN NoInfo ELSE HtmlAt(s, Least(M))

\* the characters '.' matches
DotChars(s) == Chars(s) \ {NL, CR}

\* the tail \s+in\s+([^\s]+)\s+on line\s+(\d+) of the plain form after a
\* message ending at index e: the record of its indexes, ok FALSE if none
PlainLocation(s, e) ==
    LET f1 == SpanEnd(s, e + 1, SpaceChars)
        f2 == SpanEnd(s, f1 + 2, SpaceChars)
        f3 == SpanEnd(s, f2, Chars(s) \ SpaceChars)
        f4 == SpanEnd(s, f3, SpaceChars)
        f5 == SpanEnd(s, f4 + 7, SpaceChars)
        f6 == SpanEnd(s, f5, Digits)
    IN  [ok |-> /\ f1 > e + 1 /\ LitAt(s, f1, <<"i", "n">>, TRUE)
                /\ f2 > f1 + 2 /\ f3 > f2 /\ f4 > f3
                /\ LitAt(s, f4, <<"o", "n", SP, "l", "i", "n", "e">>, TRUE)
                /\ f5 > f4 + 7 /\ f6 > f5,
         file |-> SubSeq(s, f2, f3 - 1),
         line |-> SubSeq(s, f5, f6 - 1)]

\* the pairs (a, e) a lazy (.+?) after 'PHP Fatal error:\s+' at index i may
\* span, a the first and e the last index of the message
MessageSpans(s, i) ==
    UNION {{<<a, e>> : e \in a..(SpanEnd(s, a, DotChars(s)) - 1)} :
              a \in (i + 17)..SpanEnd(s, i + 16, SpaceChars)}

\* the span the regex engine takes: \s+ greedy, (.+?) lazy
Preferred(S) ==
    CHOOSE ae \in S : \A x \in S : \/ x[1] < ae[1]
                                   \/ x[1] = ae[1] /\ x[2] >= ae[2]

\* /PHP Fatal error:\s+(.+?)\s+in\s+([^\s]+)\s+on line\s+(\d+)/i matched at
\* index i (lines 1574-1576)
PlainAt(s, i) ==
    LET S == {ae \in MessageSpans(s, i) : PlainLocation(s, ae[2]).ok}
    IN  IF LitAt(s, i, <<"P", "H", "P", SP, "F", "a", "t", "a", "l", SP, "e", "r", "r", "o", "r", ":">>, TRUE) /\ S # {}
        THEN Info(SubSeq(s, Preferred(S)[1], Preferred(S)[2]),
                  PlainLocation(s, Preferred(S)[2]).file,
                  PlainLocation(s, Preferred(S)[2]).line)
        ELSE NoInfo

\* Pattern 2 (lines 1572-1584)
PlainErrorMatch(s) ==
    LET M == {i \in 1..Len(s) : PlainAt(s, i).matched}
    IN  IF M = {} THEN NoInfo ELSE PlainAt(s, Least(M))

\* /PHP Fatal (?:Error|error):\s+(.+?)(?:\n|$)/i matched at index i
\* (line 1587)
GenericAt(s, i) ==
    LET S == {ae \in MessageSpans(s, i) :
                 ae[2] = Len(s) \/ s[ae[2] + 1] = NL}
    IN  IF LitAt(s, i, <<"P", "H", "P", SP, "F", "a", "t", "a", "l", SP, "e", "r", "r", "o", "r", ":">>, TRUE) /\ S # {}
        THEN InfoMessage(SubSeq(s, Preferred(S)[1], Preferred(S)[2]))
        ELSE NoInfo

\* Pattern 3 (lines 1586-1592)
GenericErrorMatch(s) ==
    LET M == {i \in 1..Len(s) : GenericAt(s, i).matched}
    IN  IF M = {} THEN NoInfo ELSE GenericAt(s, Least(M))

\* extractFatalErrorInfo with the generic form tried first
ExtractFatalErrorInfoGenericFirst(stdout, stderr) ==
    LET combinedOutput == CombinedOutput(stdout, stderr)
    IN  IF GenericErrorMatch(combinedOutput).matched
        THEN GenericErrorMatch(combinedOutput)
        ELSE IF HtmlErrorMatch(combinedOutput).matched
        THEN HtmlErrorMatch(combinedOutput)
        ELSE PlainErrorMatch(combinedOutput)

\* extractFatalErrorInfo (lines 1555-1595)
ExtractFatalErrorInfo(stdout, stderr) ==
    LET combinedOutput == CombinedOutput(stdout, stderr)
    IN  IF HtmlErrorMatch(combinedOutput).matched
        THEN HtmlErrorMatch(combinedOutput)
        ELSE IF PlainErrorMatch(combinedOutput).matched
        THEN PlainErrorMatch(combinedOutput)
        ELSE GenericErrorMatch(combinedOutput)

----------------------------------------------------------------------------
(* Buffered path on the text of the output: the catch block of runTest      *)
(* with parseTestResults, detectFatalError and extractFatalErrorInfo        *)
(* computed from stdout and stderr of the failed command.                   *)

\* /(\w+):\s*(OK|FAILED|PASSED|ERROR)/i matched at index i
AnyColonAt(line, i) ==
    LET k == SpanEnd(line, i, WordChars)
    IN  /\ k > i /\ k <= Len(line) /\ line[k] = ":"
        /\ StatusAt(line, SpanEnd(line, k + 1, SpaceChars)) # <<>>

\* Pattern 2 of parseTestResults (lines 1487-1499)
AnyColonMatch(line) ==
    IF \E i \in 1..Len(line) : AnyColonAt(line, i)
    THEN LET i == CHOOSE i \in 1..Len(line) :
                      AnyColonAt(line, i) /\ \A j \in 1..(i - 1) : ~AnyColonAt(line, j)
             k == SpanEnd(line, i, WordChars)
         IN  <<Ev(SubSeq(line, i, k - 1),
                  StatusPassed(StatusAt(line, SpanEnd(line, k + 1, SpaceChars))))>>
    ELSE <<>>

\* /(\w+)\s*\(/ matched at index i
ParenAt(line, i) ==
    LET k == SpanEnd(line, i, WordChars)
        j == SpanEnd(line, k, SpaceChars)
    IN  k > i /\ j <= Len(line) /\ line[j] = "("

\* Pattern 3 of parseTestResults (lines 1501-1517): the captured name, or
\* <<>> without a match
ParenMatch(line) ==
    IF \E i \in 1..Len(line) : ParenAt(line, i)
    THEN LET i == CHOOSE i \in 1..Len(line) :
                      ParenAt(line, i) /\ \A j \in 1..(i - 1) : ~ParenAt(line, j)
         IN  SubSeq(line, i, SpanEnd(line, i, WordChars) - 1)
    ELSE <<>>

\* nextLine.includes('OK') || nextLine.includes('PASSED') (line 1503)
IsSuccess(nextLine) ==
    Includes(nextLine, <<"O", "K">>) \/ Includes(nextLine, <<"P", "A", "S", "S", "E", "D">>)

\* line 1504
IsFailure(nextLine) ==
    \/ Includes(nextLine, <<"F", "A", "I", "L", "E", "D">>)
    \/ Includes(nextLine, <<"F", "A", "I", "L", "U", "R", "E">>)
    \/ Includes(nextLine, <<"E", "R", "R", "O", "R">>)

\* the loop of parseTestResults from line i on (lines 1461-1531)
RECURSIVE ParseResultsFrom(_, _, _)
ParseResultsFrom(results, lines, i) ==
    IF i > Len(lines) THEN results
    ELSE LET line == lines[i]
         IN  IF CheckmarkMatch(line) # <<>>
             THEN ParseResultsFrom(MapSet(results, CheckmarkMatch(line)[1].name,
                                          CheckmarkMatch(line)[1].passed),
                                   lines, i + 1)
             ELSE IF AnyColonMatch(line) # <<>>
             THEN ParseResultsFrom(MapSet(results, AnyColonMatch(line)[1].name,
                                          AnyColonMatch(line)[1].passed),
                                   lines, i + 1)
             ELSE IF ParenMatch(line) # <<>> /\ i + 1 <= Len(lines)
             THEN ParseResultsFrom(
                      IF IsSuccess(lines[i + 1]) \/ IsFailure(lines[i + 1])
                      THEN MapSet(results, ParenMatch(line), IsSuccess(lines[i + 1]))
                      ELSE results,
                      lines, i + 1)
             ELSE IF DetailedMatch(line) # <<>>
             THEN ParseResultsFrom(MapSet(results, DetailedMatch(line)[1].name, FALSE),
                                   lines, i + 1)
             ELSE ParseResultsFrom(results, lines, i + 1)

\* parseTestResults (lines 1448-1536): name -> passed
ParseTestResults(stdout, stderr) ==
    ParseResultsFrom(EmptyMap,
                     Split(IF stdout = <<>> THEN stderr
                           ELSE IF stderr = <<>> THEN stdout
                           ELSE stdout \o <<NL>> \o stderr),
                     1)

\* child.uri.fsPath of the File items
FsPath(n) ==
    CASE n = "F1" -> <<"f", "1">>
      [] n = "F2" -> <<"f", "2">>
      [] n = "F3" -> <<"d", "1">>
      [] n = "F4" -> <<"d", "2">>
      [] OTHER    -> <<>>

\* the item fatalErrorInfo.file stands for in childFilePath.includes(...)
\* (line 1323): the File item whose path contains it (the outputs modelled
\* name a whole path, so there is at most one), "elsewhere" when no path
\* contains it, "nofile" without a file, "null" without a result
FatalErrorItem(info) ==
    IF ~info.matched THEN "null"
    ELSE IF ~info.hasFile THEN "nofile"
    ELSE IF \E n \in Nodes : FsPath(n) # <<>> /\ Includes(FsPath(n), info.file)
    THEN CHOOSE n \in Nodes : FsPath(n) # <<>> /\ Includes(FsPath(n), info.file)
    ELSE "elsewhere"

\* hasFailures of the catch block (lines 1276-1278)
HasFailures(stdout, stderr) ==
    \/ Includes(stdout, <<"F", "A", "I", "L", "U", "R", "E", "S", "!">>)
    \/ Includes(stdout, <<"E", "R", "R", "O", "R", "S", "!">>)
    \/ Includes(stderr, <<"F", "A", "I", "L", "E", "D">>)
    \/ Includes(stdout, <<"T", "h", "e", "r", "e", SP, "w", "a", "s", SP, "1", SP, "e", "r", "r", "o", "r">>)
    \/ Includes(stdout, <<"T", "h", "e", "r", "e", SP, "w", "e", "r", "e">>)
    \/ DetectFatalError(stdout, stderr)

\* what the runner printed before it stopped
ResultTexts ==
    { <<>>,
      <<CHK, SP, "b", NL>>,
      <<CROSS, SP, "a", NL>>,
      <<"t", NL>> }

\* what PHP printed when it stopped
FatalTexts ==
    { <<>>,
      <<"<", "p", "r", "e", ">", "P", "H", "P", SP, "F", "a", "t", "a", "l", SP, "E", "r", "r", "o", "r", SP, "'", "E", "'", SP, "w", "i", "t", "h", SP, "m", "e", "s", "s", "a", "g", "e", SP, "'", "m", "'", SP, "i", "n", SP, "f", "1", ":", "1">>,
      <<"<", "p", "r", "e", ">", "P", "H", "P", SP, "F", "a", "t", "a", "l", SP, "E", "r", "r", "o", "r", ":", SP, "'", "E", "'", SP, "w", "i", "t", "h", SP, "m", "e", "s", "s", "a", "g", "e", SP, "'", "m", "'", SP, "i", "n", SP, "f", "1", ":", "1">>,
      <<"<", "p", "r", "e", ">", "P", "H", "P", SP, "F", "a", "t", "a", "l", SP, "e", "r", "r", "o", "r", ":", SP, "m", SP, "i", "n", SP, "f", "2", SP, "o", "n", SP, "l", "i", "n", "e", SP, "1", SP, "'", "E", "'", SP, "w", "i", "t", "h", SP, "m", "e", "s", "s", "a", "g", "e", SP, "'", "m", "'", SP, "i", "n", SP, "f", "1", ":", "1">>,
      <<"P", "H", "P", SP, "F", "a", "t", "a", "l", SP, "e", "r", "r", "o", "r", ":", SP, "m", SP, "i", "n", SP, "f", "1", SP, "o", "n", SP, "l", "i", "n", "e", SP, "1">>,
      <<"P", "H", "P", SP, "F", "a", "t", "a", "l", SP, "e", "r", "r", "o", "r", ":", SP, "m", SP, "i", "n", SP, "d", "1", SP, "o", "n", SP, "l", "i", "n", "e", SP, "2">>,
      <<"P", "H", "P", SP, "F", "a", "t", "a", "l", SP, "e", "r", "r", "o", "r", ":", SP, "m", SP, "i", "n", SP, "e", SP, "o", "n", SP, "l", "i", "n", "e", SP, "1">>,
      <<"P", "H", "P", SP, "F", "a", "t", "a", "l", SP, "e", "r", "r", "o", "r", ":", SP, "m">>,
      <<"P", "H", "P", SP, "F", "a", "t", "a", "l", SP, "e", "r", "r", "o", "r", ":", SP, "m", NL, "t">>,
      <<"P", "H", "P", SP, "F", "a", "t", "a", "l", SP, "e", "r", "r", "o", "r", ":", SP, "m", CR>>,
      <<"F", "a", "t", "a", "l", SP, "e", "r", "r", "o", "r", ":", SP, "m">>,
      <<"P", "H", "P", SP, "F", "a", "t", "a", "l", SP, "E", "r", "r", "o", "r", SP, "m">> }

FatalErrTexts ==
    { <<>>, <<"F", "A", "I", "L", "E", "D">>, <<"P", "H", "P", SP, "F", "a", "t", "a", "l", SP, "e", "r", "r", "o", "r", ":", SP, "m", SP, "i", "n", SP, "f", "2", SP, "o", "n", SP, "l", "i", "n", "e", SP, "1">> }

InitFatal ==
    /\ stdoutStream \in {r \o f : r \in ResultTexts, f \in FatalTexts}
    /\ stderrStream \in FatalErrTexts
    /\ outPos = 0
    /\ errPos = 0
    /\ lineBuffer = <<>>
    /\ stderrBuffer = <<>>
    /\ events = <<>>
    /\ parsedLines = <<>>
    /\ splitLine = FALSE
    /\ streamClosed = FALSE
    /\ verbatim = TRUE
    /\ queue \in {<<p>> : p \in Containers}
    /\ qi = 1
    /\ runEnded = FALSE
    /\ cancelRequested = FALSE
    /\ cancelledRuns = {}
    /\ outcome = [n \in Nodes |-> IF n = queue[1] THEN "Running" ELSE "Unset"]
    /\ inv = <<NewInv>>
    /\ proc = <<NoProc>>
    /\ timerLive = <<FALSE>>
    /\ execProcess = 0
    /\ timeoutHandle = 0
    /\ report = NoReport
    /\ lateReport = FALSE
    /\ atCancel = [at |-> 0, snap |-> [n \in Nodes |-> "Unset"]]

\* parseAndMarkChildren (lines 1291-1446) from the texts
ParseAndMarkOutput(o, parentTest, stdout, stderr, hasFailures) ==
    ParseAndMarkChildren(o, parentTest, ParseTestResults(stdout, stderr),
        DetectFatalError(stdout, stderr),
        IF DetectFatalError(stdout, stderr)
        THEN FatalErrorItem(ExtractFatalErrorInfo(stdout, stderr)) ELSE "null",
        hasFailures)

\* the catch block of runTest for an item with children whose command
\* failed with an error that is no Docker error (lines 1226-1283), then the
\* end of the loop of runTests and run.end()
RunTestCatchOutput ==
    /\ ~runEnded
    /\ outcome' = IF stdoutStream # <<>>
                  THEN ParseAndMarkOutput(outcome, queue[1], stdoutStream, stderrStream,
                                          HasFailures(stdoutStream, stderrStream))
                  ELSE [outcome EXCEPT ![queue[1]] = "Failed"]
    /\ runEnded' = TRUE
    /\ qi' = 2
    /\ UNCHANGED <<queue, cancelRequested, cancelledRuns, inv, proc, timerLive, execProcess,
                   timeoutHandle, report, lateReport, atCancel>>
    /\ UNCHANGED textVars

NextFatal == RunTestCatchOutput

SpecFatal == InitFatal /\ [][NextFatal]_vars

----------------------------------------------------------------------------
(* Reconciliation on its own: one streaming invocation whose report may     *)
(* hold failure, error and skipped testcases or be malformed, and           *)
(* reconcileWithXmlResults applied to it once and a second time.            *)

MaxStream == 1

\* the children of a testcase element that parseTestCase looks at
Elements ==
    {[failure |-> f, error |-> e, skipped |-> k] :
        f \in BOOLEAN, e \in BOOLEAN, k \in BOOLEAN}

\* parseTestCase (junitParser.ts lines 144-170)
ParseTestCase(file, name, el) ==
    [file   |-> file,
     name   |-> name,
     status |-> IF el.skipped THEN "skipped"
                ELSE IF el.error THEN "error"
                ELSE IF el.failure THEN "failed"
                ELSE "passed"]

\* elements with at most one of the three children
PlainElements ==
    {el \in Elements :
        Cardinality({x \in {"f", "e", "k"} :
                        \/ x = "f" /\ el.failure
                        \/ x = "e" /\ el.error
                        \/ x = "k" /\ el.skipped}) <= 1}

ReconCasesFor(target) ==
    {ParseTestCase(FileOf(m), MethodName(m), el) :
        m \in MethodsUnder(target), el \in PlainElements}

\* the report files the reconciliation may find for a target
ReconReports(target) ==
    {NoReport} \cup
    {[exists |-> TRUE, cases |-> cs, content |-> ct] :
        cs \in {x \in SeqsUpTo(ReconCasesFor(target), MaxReport) :
                   \A i, j \in 1..Len(x) :
                       (x[i].file = x[j].file /\ x[i].name = x[j].name) => i = j},
        ct \in {"xml", "empty", "unparseable", "nosuites"}}

InitRecon ==
    /\ TextIdle
    /\ queue \in {<<p>> : p \in Containers}
    /\ qi = 1
    /\ runEnded = FALSE
    /\ cancelRequested = FALSE
    /\ cancelledRuns = {}
    /\ outcome = [n \in Nodes |-> IF n = queue[1] THEN "Running" ELSE "Unset"]
    /\ inv = <<[NewInv EXCEPT !.promise = "pending"]>>
    /\ proc = <<[state |-> "running", killed |-> FALSE]>>
    /\ timerLive = <<TRUE>>
    /\ execProcess = 1
    /\ timeoutHandle = 1
    /\ report \in {r \in ReconReports(queue[1]) :
                      r.content = "empty" => r.cases = <<>>}
    /\ lateReport = FALSE
    /\ atCancel = [at |-> 0, snap |-> [n \in Nodes |-> "Unset"]]

\* a result line, at most MaxStream names recorded
ReconStream ==
    /\ Cardinality(inv[1].seen) < MaxStream
    /\ ResultLine(1)

\* 'close' with exit code 0 (coverageParser.ts lines 551-562): onComplete
\* runs up to its first await, the promise is resolved
ReconClose ==
    /\ proc[1].state = "running"
    /\ Commit(Resolve(OnCompleteStart(
                        Cleanup([Cur EXCEPT !.proc[1].state = "closed"]), 1, 0),
                      1, FALSE))
    /\ UNCHANGED <<queue, cancelRequested, cancelledRuns, report, atCancel>>
    /\ UNCHANGED textVars

\* reconcileWithXmlResults (lines 819-933) from its 300 ms wait to its end
ReconcileOnce ==
    /\ inv[1].complete = "waiting"
    /\ LET r == Reconcile(outcome, inv[1].seen, BuildTestNameMap(queue[1]),
                          inv[1].results, report)
       IN  Commit([SetStates(Cur, r.o) EXCEPT !.inv[1].seen = r.seen,
                                              !.inv[1].complete = "reconciled"])
    /\ UNCHANGED <<queue, cancelRequested, cancelledRuns, report, atCancel>>
    /\ UNCHANGED textVars

\* reconcileWithXmlResults called again with the same arguments
ReconcileAgain ==
    /\ inv[1].complete = "reconciled"
    /\ LET r == Reconcile(outcome, inv[1].seen, BuildTestNameMap(queue[1]),
                          inv[1].results, report)
       IN  Commit([SetStates(Cur, r.o) EXCEPT !.inv[1].seen = r.seen,
                                              !.inv[1].complete = "again"])
    /\ UNCHANGED <<queue, cancelRequested, cancelledRuns, report, atCancel>>
    /\ UNCHANGED textVars

NextRecon == ReconStream \/ ReconClose \/ ReconcileOnce \/ ReconcileAgain

SpecRecon == InitRecon /\ [][NextRecon]_vars

----------------------------------------------------------------------------
(* Streaming specification: one invocation whose child process prints       *)
(* result lines; every 'data' event runs onOutput, processChunk, parseLine  *)
(* and, for each event, onTestResult of executeTestWithStreaming.           *)

\* result lines of the runner: a glyph and a name; "d" is declared nowhere
StreamLines ==
    {<<g, SP, n>> : g \in {CHK, CROSS}, n \in {"a", "b", "d"}}

StreamTargets == {"F1", "F2"}

\* the parseLine events handed to onTestResult one after the other
RECURSIVE ApplyEvents(_, _, _)
ApplyEvents(st, k, evs) ==
    IF evs = <<>> THEN st
    ELSE ApplyEvents(OnTestResult(st, k, Head(evs).name, Head(evs).passed),
                     k, Tail(evs))

InitStream ==
    /\ stdoutStream \in {JoinLines(ls) : ls \in SeqsUpTo(StreamLines, MaxLines)}
    /\ stderrStream \in SampleErrStreams
    /\ outPos = 0
    /\ errPos = 0
    /\ lineBuffer = <<>>
    /\ stderrBuffer = <<>>
    /\ events = <<>>
    /\ parsedLines = <<>>
    /\ splitLine = FALSE
    /\ streamClosed = FALSE
    /\ verbatim = TRUE
    /\ queue \in {<<p>> : p \in StreamTargets}
    /\ qi = 1
    /\ runEnded = FALSE
    /\ cancelRequested = FALSE
    /\ cancelledRuns = {}
    /\ outcome = [n \in Nodes |-> IF n = queue[1] THEN "Running" ELSE "Unset"]
    /\ inv = <<[NewInv EXCEPT !.promise = "pending"]>>
    /\ proc = <<[state |-> "running", killed |-> FALSE]>>
    /\ timerLive = <<TRUE>>
    /\ execProcess = 1
    /\ timeoutHandle = 1
    /\ report = NoReport
    /\ lateReport = FALSE
    /\ atCancel = [at |-> 0, snap |-> [n \in Nodes |-> "Unset"]]

\* stdout 'data' handler (coverageParser.ts lines 536-540) with the
\* onTestResult calls parseLine makes
StreamStdout ==
    /\ \E n \in 1..(Len(stdoutStream) - outPos) :
          /\ Deliver(SubSeq(stdoutStream, outPos + 1, outPos + n))
          /\ outPos' = outPos + n
          /\ Commit(ApplyEvents(Cur, 1,
                 ProcessChunk(lineBuffer,
                              SubSeq(stdoutStream, outPos + 1, outPos + n)).events))
    /\ UNCHANGED <<stdoutStream, stderrStream, errPos, stderrBuffer, streamClosed>>
    /\ UNCHANGED <<queue, cancelRequested, cancelledRuns, report, atCancel>>

\* stderr 'data' handler (coverageParser.ts lines 543-548), the same
StreamStderr ==
    /\ \E n \in 1..(Len(stderrStream) - errPos) :
          /\ stderrBuffer' = stderrBuffer \o SubSeq(stderrStream, errPos + 1, errPos + n)
          /\ Deliver(SubSeq(stderrStream, errPos + 1, errPos + n))
          /\ errPos' = errPos + n
          /\ Commit(ApplyEvents(Cur, 1,
                 ProcessChunk(lineBuffer,
                              SubSeq(stderrStream, errPos + 1, errPos + n)).events))
    /\ UNCHANGED <<stdoutStream, stderrStream, outPos, streamClosed>>
    /\ UNCHANGED <<queue, cancelRequested, cancelledRuns, report, atCancel>>

NextStream == StreamStdout \/ StreamStderr

SpecStream == InitStream /\ [][NextStream]_vars

----------------------------------------------------------------------------
(* Two runs in flight on one provider: runTests was called twice, each run  *)
(* has one item (queue[r] is the item of run r) and its own cancellation    *)
(* token; both use the one StreamingTestExecutor.  No report file exists.   *)
(* run.end() of the two runs is not followed here.                          *)

MaxFragment == 1

RunIds == {1, 2}

\* how a process that was not sent SIGTERM may close: exit code 0 or 1, or
\* killed by another signal (code null)
CloseKinds ==
    { [hasCode |-> TRUE,  code |-> 0, signal |-> "null"],
      [hasCode |-> TRUE,  code |-> 1, signal |-> "null"],
      [hasCode |-> FALSE, code |-> 0, signal |-> "SIGKILL"] }

\* an exit code that makes a null code a failure
ExitCodeNullFails(ex) == IF ex.hasCode THEN ex.code ELSE 1

\* const exitCode = code ?? 0 (coverageParser.ts line 559)
ExitCode(ex) == IF ex.hasCode THEN ex.code ELSE 0

\* the unterminated text the process of run r prints
Fragment(r) == IF r = 1 THEN <<"a">> ELSE <<"d">>

InitRuns ==
    /\ TextIdle
    /\ queue = <<"F2", "F3">>
    /\ qi = 0
    /\ runEnded = FALSE
    /\ cancelRequested = FALSE
    /\ cancelledRuns = {}
    /\ outcome = [n \in Nodes |-> "Unset"]
    /\ inv = [k \in RunIds |-> NewInv]
    /\ proc = [k \in RunIds |-> NoProc]
    /\ timerLive = [k \in RunIds |-> FALSE]
    /\ execProcess = 0
    /\ timeoutHandle = 0
    /\ report = NoReport
    /\ lateReport = FALSE
    /\ atCancel = [at |-> 0, snap |-> [n \in Nodes |-> "Unset"]]

\* reject(...) of the promise of run r's invocation and the catch block
\* (testProvider.ts lines 641-682) with the token of run r
RunReject(st, r) ==
    IF st.inv[r].promise = "pending"
    THEN Catch([st EXCEPT !.inv[r].promise = "rejected"], r, r \in cancelledRuns, FALSE)
    ELSE st

\* resolve() of the promise of run r's invocation
RunResolve(st, r) ==
    IF st.inv[r].promise = "pending"
    THEN [st EXCEPT !.inv[r].promise = "resolved"]
    ELSE st

\* runTests is called for run r (testProvider.ts lines 317-347) and reaches
\* the spawn of executeWithStreaming
RunsStart(r) ==
    /\ proc[r].state = "none"
    /\ Commit(StartInvocation(Cur, r))
    /\ UNCHANGED <<queue, cancelRequested, cancelledRuns, report, atCancel>>
    /\ UNCHANGED textVars

\* a 'data' event of run r's process whose chunk is one result line
RunsResultLine(r) ==
    /\ proc[r].state = "running"
    /\ Cardinality(inv[r].seen) < MaxStream
    /\ \E g \in {CHK, CROSS} :
          /\ Deliver(<<g, SP, "b", NL>>)
          /\ Commit(ApplyEvents(Cur, r,
                 ProcessChunk(lineBuffer, <<g, SP, "b", NL>>).events))
    /\ UNCHANGED <<stdoutStream, stderrStream, outPos, errPos, stderrBuffer,
                   streamClosed>>
    /\ UNCHANGED <<queue, cancelRequested, cancelledRuns, report, atCancel>>

\* a 'data' event of run r's process whose chunk has no newline
RunsFragment(r) ==
    /\ proc[r].state = "running"
    /\ Len(lineBuffer) < MaxFragment
    /\ Deliver(Fragment(r))
    /\ UNCHANGED <<stdoutStream, stderrStream, outPos, errPos, stderrBuffer,
                   streamClosed>>
    /\ UNCHANGED runVars

\* 'close' of run r's process, which was not sent SIGTERM
\* (coverageParser.ts lines 551-562)
RunsClose(r) ==
    /\ proc[r].state = "running"
    /\ ~proc[r].killed
    /\ \E ex \in CloseKinds :
          Commit(RunResolve(
                   OnCompleteStart(
                     Cleanup([Cur EXCEPT !.proc[r].state =
                                 IF ex.signal = "null" THEN "closed" ELSE "signalled"]),
                     r, ExitCode(ex)),
                   r))
    /\ lineBuffer' = <<>>
    /\ stderrBuffer' = <<>>
    /\ UNCHANGED <<stdoutStream, stderrStream, outPos, errPos, events,
                   parsedLines, splitLine, streamClosed, verbatim>>
    /\ UNCHANGED <<queue, cancelRequested, cancelledRuns, report, atCancel>>

\* 'close' of run r's process with signal SIGTERM (lines 551-557)
RunsCloseTerminated(r) ==
    /\ proc[r].state = "running"
    /\ proc[r].killed
    /\ Commit(RunReject(Cleanup([Cur EXCEPT !.proc[r].state = "closed"]), r))
    /\ lineBuffer' = <<>>
    /\ stderrBuffer' = <<>>
    /\ UNCHANGED <<stdoutStream, stderrStream, outPos, errPos, events,
                   parsedLines, splitLine, streamClosed, verbatim>>
    /\ UNCHANGED <<queue, cancelRequested, cancelledRuns, report, atCancel>>

\* the timeout callback of run r's invocation (lines 526-532)
RunsTimeout(r) ==
    /\ timerLive[r]
    /\ LET st == [Cur EXCEPT !.timerLive[r] = FALSE]
       IN  IF st.execProcess # 0 /\ ~st.proc[st.execProcess].killed
           THEN Commit(RunReject(KillCurrent(st), r))
           ELSE Commit(st)
    /\ UNCHANGED <<queue, cancelRequested, cancelledRuns, report, atCancel>>
    /\ UNCHANGED textVars

\* the token of run r is cancelled while its invocation is awaited: the
\* handler of testProvider.ts line 338 calls cancel (coverageParser.ts
\* lines 582-587)
RunsCancel(r) ==
    /\ inv[r].promise = "pending"
    /\ r \notin cancelledRuns
    /\ cancelledRuns' = cancelledRuns \cup {r}
    /\ Commit(Cleanup(KillCurrent(Cur)))
    /\ lineBuffer' = <<>>
    /\ stderrBuffer' = <<>>
    /\ UNCHANGED <<stdoutStream, stderrStream, outPos, errPos, events,
                   parsedLines, splitLine, streamClosed, verbatim>>
    /\ UNCHANGED <<queue, cancelRequested, report, atCancel>>

\* onComplete of run r after reconcileWithXmlResults found no report file
\* (testProvider.ts lines 622-634, 834-837)
RunsComplete(r) ==
    /\ inv[r].complete = "waiting"
    /\ Commit(ParentVerdict(Cur, r))
    /\ UNCHANGED <<queue, cancelRequested, cancelledRuns, report, atCancel>>
    /\ UNCHANGED textVars

NextRuns ==
    \/ \E r \in RunIds : RunsStart(r)
    \/ \E r \in RunIds : RunsResultLine(r)
    \/ \E r \in RunIds : RunsFragment(r)
    \/ \E r \in RunIds : RunsClose(r)
    \/ \E r \in RunIds : RunsCloseTerminated(r)
    \/ \E r \in RunIds : RunsTimeout(r)
    \/ \E r \in RunIds : RunsCancel(r)
    \/ \E r \in RunIds : RunsComplete(r)

SpecRuns == InitRuns /\ [][NextRuns]_vars

----------------------------------------------------------------------------
(* Properties of the run *)

Idx == 1..Len(queue)

\* the index built for invocation k (line 576)
NameMapOf(k) == BuildTestNameMap(queue[k])

\* the names of the streaming results of invocation k that resolved to node n
StreamedNames(k, n) ==
    {t \in DOMAIN inv[k].results : t \in DOMAIN NameMapOf(k) /\ NameMapOf(k)[t] = n}

\* node n has a streaming outcome in invocation k, and every streaming
\* result recorded for it says passed = p
StreamedAs(k, n, p) ==
    /\ StreamedNames(k, n) # {}
    /\ \A t \in StreamedNames(k, n) : inv[k].results[t] = p

\* the testcases of the report file that belong to method node n
CasesOf(n) ==
    {report.cases[i] : i \in {j \in 1..Len(report.cases) :
                                 /\ report.cases[j].file = FileOf(n)
                                 /\ report.cases[j].name = MethodName(n)}}

\* C1: reconciliation precedence.  When reconciliation runs, every method
\* node whose streaming outcome disagrees with the report's testcase for
\* that method has the report's outcome afterwards.
C1_ReportWins ==
    [][\A k \in Idx :
          ReconcileStep(k) =>
             \A n \in MethodsUnder(queue[k]) : \A c \in CasesOf(n) :
                 StreamedAs(k, n, c.status # "passed") =>
                     outcome'[n] = XmlOutcome(c)]_vars

\* C2: without a report the streaming results stand.  After onComplete has
\* finished for a process that exited normally and no report file exists, a
\* node whose only streaming result was Failed is Failed, and so is the item
\* that was run.
C2_StreamingStands ==
    \A k \in Idx :
        (inv[k].complete = "done" /\ inv[k].promise = "resolved" /\ ~report.exists) =>
            \A n \in MethodsUnder(queue[k]) :
                (Cardinality(StreamedNames(k, n)) = 1 /\ StreamedAs(k, n, FALSE)) =>
                    (outcome[n] = "Failed" /\ outcome[queue[k]] = "Failed")

\* C5: first event per node wins.  A result line never changes the state of
\* a node that already has a streaming outcome in this run.
C5_FirstEventWins ==
    [][\A k \in Idx :
          ResultLine(k) =>
             \A n \in MethodsUnder(queue[k]) :
                 StreamedNames(k, n) # {} => outcome'[n] = outcome[n]]_vars

\* C6: run ordering.  The promise of executeWithStreaming is resolved only
\* after onComplete (reconciliation and parent verdict) has finished, and
\* no node state is reported after run.end().
C6_RunOrdering ==
    /\ \A k \in Idx : inv[k].promise = "resolved" => inv[k].complete = "done"
    /\ ~lateReport

\* C7: strictly sequential processing.  While the reconciliation of one
\* queue item is pending, the child process of no other item is running.
C7_Sequential ==
    \A i, j \in Idx :
        (i # j /\ inv[i].complete \in {"waiting", "reading"}) =>
            proc[j].state # "running"

\* the nodes of the run of queue item k: the item and everything below it
RECURSIVE NodesUnder(_)
NodesUnder(n) ==
    {n} \cup UNION {NodesUnder(Children(n)[i]) : i \in 1..Len(Children(n))}

\* C8: cancellation marks non-terminal nodes Skipped.  When the run was
\* cancelled while a child process was streaming, every node of that
\* invocation that was Unset or Running at that moment is Skipped when the
\* run has ended.
C8_CancelSkips ==
    (runEnded /\ atCancel.at # 0) =>
        \A n \in NodesUnder(queue[atCancel.at]) :
            atCancel.snap[n] \in {"Unset", "Running"} => outcome[n] = "Skipped"

\* C9: cancellation preserves terminal nodes.  Every node that was Passed
\* or Failed when the run was cancelled has that state when the run has
\* ended.
C9_CancelKeepsTerminal ==
    (runEnded /\ atCancel.at # 0) =>
        \A n \in NodesUnder(queue[atCancel.at]) :
            atCancel.snap[n] \in {"Passed", "Failed"} => outcome[n] = atCancel.snap[n]

\* C10: timeout is distinct from failure.  The timeout callback that kills
\* the process marks no node Failed, and the nodes of the invocation that
\* are not yet terminal become Skipped.
C10_TimeoutNotFailure ==
    [][\A k \in Idx :
          (Timeout(k) /\ inv[k].promise = "pending" /\ inv'[k].promise = "rejected") =>
             /\ \A n \in Nodes : outcome'[n] = "Failed" => outcome[n] = "Failed"
             /\ \A n \in NodesUnder(queue[k]) :
                   outcome[n] \in {"Unset", "Running"} => outcome'[n] = "Skipped"]_vars

Terminal == {"Passed", "Failed", "Skipped"}

\* the File and Suite nodes of the run of queue item k
ContainersOf(k) == NodesUnder(queue[k]) \ Methods

\* early-abort mode of invocation k: the output holds a fatal-error marker
\* and no leaf outcome was recorded
EarlyAbort(k) == inv[k].fatal /\ DOMAIN inv[k].results = {}

\* C11: invocation failure marks no node Failed.  The 'error' event of the
\* child process (it could not be spawned, or the transport could not be
\* reached) leaves every node that was not Failed not Failed.
C11_InvocationFailure ==
    [][\A k \in Idx :
          ProcessError(k) =>
             \A n \in Nodes : outcome'[n] = "Failed" => outcome[n] = "Failed"]_vars

\* C12: outcome transitions are forward-only.  A node that is Passed, Failed
\* or Skipped changes its state only in the reconciliation step, and only
\* to the outcome of a report testcase of that method that disagrees with
\* the recorded state.
C12_ForwardOnly ==
    [][\A n \in Nodes :
          (outcome[n] \in Terminal /\ outcome'[n] # outcome[n]) =>
             \E k \in Idx :
                /\ ReconcileStep(k)
                /\ n \in MethodsUnder(queue[k])
                /\ \E c \in CasesOf(n) : XmlOutcome(c) = outcome'[n]]_vars

\* C13: failure propagates upward.  When onComplete has finished for an
\* invocation that is not in early-abort mode, every File and Suite of that
\* invocation with a Failed method below it is Failed.
C13_FailurePropagates ==
    \A k \in Idx :
        (inv[k].complete = "done" /\ ~EarlyAbort(k)) =>
            \A c \in ContainersOf(k) :
                (\E m \in MethodsUnder(c) : outcome[m] = "Failed") =>
                    outcome[c] = "Failed"

\* C14: container pass rule from the final table.  When onComplete has
\* finished and the output held no fatal error, every File and Suite of the
\* invocation whose methods are all Passed is Passed, whatever the exit code
\* and whatever streaming had said before a correction.
C14_ContainerPass ==
    \A k \in Idx :
        (inv[k].complete = "done" /\ ~inv[k].fatal) =>
            \A c \in ContainersOf(k) :
                (\A m \in MethodsUnder(c) : outcome[m] = "Passed") =>
                    outcome[c] = "Passed"

\* a testcase of the report file resolves, under one of the keys
\* parseJUnitXml stores for it, to method node n of invocation k
ReportMentions(k, n) ==
    \E i \in 1..Len(report.cases) :
        \E j \in 1..Len(NameVariants(report.cases[i].name)) :
            LET key == NameVariants(report.cases[i].name)[j]
            IN  key \in DOMAIN NameMapOf(k) /\ NameMapOf(k)[key] = n

\* the step in which onComplete of invocation k finishes
CompletionStep(k) ==
    (ReportWaitOver(k) \/ ReconcileStep(k)) /\ inv'[k].complete = "done"

C17_NoDefaultPassOnAbort ==
    [][\A k \in Idx :
          (CloseNormal(k) /\ EarlyAbort(k)) =>
             \A n \in MethodsUnder(queue[k]) :
                outcome'[n] = "Passed" => outcome[n] = "Passed"]_vars

\* C18: early-abort scoping.  In early-abort mode the steps of onComplete
\* change the state of no node of the invocation other than the File the
\* fatal error names and that File's methods.
C18_AbortScoping ==
    [][\A k \in Idx :
          ((CloseNormal(k) \/ ReportWaitOver(k)) /\ EarlyAbort(k) /\ ~report.exists) =>
             \A n \in NodesUnder(queue[k]) :
                outcome'[n] # outcome[n] =>
                   \/ n = inv[k].fatalFile
                   \/ n \in Methods /\ FileOf(n) = inv[k].fatalFile]_vars

\* C19: early-abort marks the matching file.  When onComplete has finished
\* in early-abort mode and there is no report, the File the fatal error
\* names is Failed and so is every method of it.
C19_AbortMarksFile ==
    \A k \in Idx :
        (/\ inv[k].complete = "done"
         /\ EarlyAbort(k)
         /\ inv[k].fatalFile # "none"
         /\ ~report.exists) =>
            /\ outcome[inv[k].fatalFile] = "Failed"
            /\ \A m \in MethodsUnder(inv[k].fatalFile) : outcome[m] = "Failed"

\* C20: fatal error with partial results.  When onComplete has finished,
\* the output named file F in a fatal-error marker, streaming reported only
\* methods of F and all of them failed, and there is no report: F is
\* Failed, the reported methods are Failed, and every unreported method of
\* the invocation is still Unset.
C20_PartialFatal ==
    \A k \in Idx :
        (/\ inv[k].complete = "done"
         /\ inv[k].fatal
         /\ inv[k].fatalFile # "none"
         /\ DOMAIN inv[k].results # {}
         /\ \A t \in DOMAIN inv[k].results :
               /\ ~inv[k].results[t]
               /\ FileOf(NameMapOf(k)[t]) = inv[k].fatalFile
         /\ ~report.exists) =>
            /\ outcome[inv[k].fatalFile] = "Failed"
            /\ \A n \in MethodsUnder(queue[k]) :
                  /\ StreamedNames(k, n) # {} => outcome[n] = "Failed"
                  /\ StreamedNames(k, n) = {} => outcome[n] = "Unset"

\* the items with children at or below the item that was run
MarkedContainers == NodesUnder(queue[1]) \cap Containers

----------------------------------------------------------------------------
(* Properties of reconciliation and of the name index *)

\* what the reconciliation of invocation k computes from the current state
ReconcileResult(k) ==
    Reconcile(outcome, inv[k].seen, NameMapOf(k), inv[k].results, report)

\* C21: reconciliation idempotence.  A second reconcileWithXmlResults with
\* the same report, the seenTests and testResults the first one left and
\* the node states it left, changes no node state.
C21_Idempotent ==
    [][ReconcileAgain => outcome' = outcome]_vars

\* C22: duplicate-variant suppression.  In one reconciliation no node is
\* set twice from the same testcase of the report under two of its keys.
C22_NoDoubleApply ==
    [][ReconcileOnce =>
          LET calls == ReconcileResult(1).calls
          IN  \A i, j \in 1..Len(calls) :
                 (calls[i][2] = calls[j][2] /\ calls[i][3] = calls[j][3]) => i = j]_vars

\* the node state that stands for a status of the report
StatusOutcome(status) ==
    CASE status = "passed"  -> "Passed"
      [] status = "skipped" -> "Skipped"
      [] OTHER              -> "Failed"

\* C23: the report fills gaps with its own status.  After reconciling a
\* report with a single testcase, the method that testcase belongs to, if
\* streaming gave it no outcome, has the state of the testcase's status:
\* Passed, Failed for failed and error, Skipped for skipped.
C23_ReportFillsGaps ==
    [][(ReconcileOnce /\ report.exists /\ report.content = "xml"
                      /\ Len(report.cases) = 1) =>
          \A n \in MethodsUnder(queue[1]) : \A c \in CasesOf(n) :
              StreamedNames(1, n) = {} => outcome'[n] = StatusOutcome(c.status)]_vars

\* the report is missing, empty, rejected by the XML parser or without
\* test suites
Malformed(file) == ~file.exists \/ file.content # "xml" \/ file.cases = <<>>

\* C24: a malformed report fails closed.  Reconciling an empty or
\* unparseable report, or one without test suites, changes no node state
\* and leaves seenTests and testResults as they were.
C24_FailsClosed ==
    [][(ReconcileOnce /\ Malformed(report)) =>
          /\ outcome' = outcome
          /\ inv'[1].seen = inv[1].seen
          /\ inv'[1].results = inv[1].results]_vars

\* C24 witness: an unparseable report that holds a failing testcase was
\* reconciled after streaming had recorded a result.
C24_Witness ==
    /\ inv[1].complete = "reconciled"
    /\ report.exists
    /\ report.content = "unparseable"
    /\ \E i \in 1..Len(report.cases) : report.cases[i].status = "failed"
    /\ inv[1].seen # {}

\* C25: reconciliation leaves unmentioned nodes Unset.  When the
\* reconciliation of an invocation finishes, every method of it that no
\* streaming result and no testcase of the report resolved to is Unset.
C25_UnmentionedUnset ==
    [][\A k \in Idx :
          ReconcileStep(k) =>
             \A n \in MethodsUnder(queue[k]) :
                (StreamedNames(k, n) = {} /\ ~ReportMentions(k, n)) =>
                    outcome'[n] = "Unset"]_vars

\* lookup (line 592): testNameMap.get(rawName)
Lookup(k, rawName) ==
    IF rawName \in DOMAIN NameMapOf(k) THEN NameMapOf(k)[rawName] ELSE "none"

\* C26: canonical lookup priority.  When a result line prints a name that
\* is the exact name of a declared method of the target, onTestResult looks
\* it up to a method with that name and marks that method.
C26_ExactFirst ==
    [][ReconStream =>
          \A t \in inv'[1].seen \ inv[1].seen :
              (\E m \in MethodsUnder(queue[1]) : MethodName(m) = t) =>
                  /\ MethodName(Lookup(1, t)) = t
                  /\ outcome'[Lookup(1, t)] \in {"Passed", "Failed"}]_vars

\* C27: index completeness.  Every declared method of the target is the
\* value of at least one key of the index built for it.
C27_IndexComplete ==
    \A k \in Idx : \A n \in MethodsUnder(queue[k]) :
        \E key \in DOMAIN NameMapOf(k) : NameMapOf(k)[key] = n

----------------------------------------------------------------------------
(* Properties of the classifier and of output forwarding *)

\* the r-th recognizer of parseLine, in the order of the source
Recognize(r, line) ==
    CASE r = 1 -> CheckmarkMatch(line)
      [] r = 2 -> ColonMatch(line)
      [] r = 3 -> VerboseMatch(line)
      [] r = 4 -> TapOkMatch(line)
      [] r = 5 -> TapFailMatch(line)
      [] r = 6 -> DetailedMatch(line)

Matching(line) == {r \in 1..6 : Recognize(r, line) # <<>>}

\* the event of the first recognizer in the order that matches, if any
FirstMatch(line) ==
    IF Matching(line) = {} THEN <<>>
    ELSE Recognize(CHOOSE r \in Matching(line) : \A q \in Matching(line) : r <= q,
                   line)

RECURSIVE FirstMatches(_)
FirstMatches(lines) ==
    IF lines = <<>> THEN <<>>
    ELSE FirstMatch(Head(lines)) \o FirstMatches(Tail(lines))

\* C28: classifier precedence.  The onTestResult calls made so far are, line
\* by line of the complete lines handed to parseLine, the one event of the
\* first recognizer that matches in the order glyph, 'identifier: STATUS',
\* verbose, TAP ok, TAP not ok, detailed failure header: at most one event
\* per line, and none for a line no recognizer matches.
C28_ClassifierPrecedence ==
    /\ events = FirstMatches(parsedLines)
    /\ \A i \in 1..Len(parsedLines) : Len(FirstMatch(parsedLines[i])) <= 1
    /\ Len(events) <= Len(parsedLines)

\* a line that several recognizers match has been classified
C28_Witness ==
    /\ Len(events) = 1
    /\ \E i \in 1..Len(parsedLines) :
          /\ Cardinality(Matching(parsedLines[i])) >= 2
          /\ 1 \notin Matching(parsedLines[i])
          /\ events[1] = Recognize(2, parsedLines[i])[1]

\* the index at which the glyph pattern first matches in the line
GlyphIndex(line) ==
    CHOOSE i \in 1..Len(line) :
        CheckmarkAt(line, i) /\ \A k \in 1..(i - 1) : ~CheckmarkAt(line, k)

\* C29: glyph outcome.  Whenever a data event hands a glyph-marked line to
\* parseLine, the event reported for it is Passed exactly when the glyph
\* that matched in front of the extracted identifier is the success glyph,
\* whatever other glyph occurs elsewhere on the line.
C29_GlyphOutcome ==
    [][ (/\ Len(parsedLines') = Len(parsedLines) + 1
         /\ CheckmarkMatch(parsedLines'[Len(parsedLines')]) # <<>>)
        => (/\ Len(events') = Len(events) + 1
            /\ events'[Len(events')].passed
                 = (parsedLines'[Len(parsedLines')]
                       [GlyphIndex(parsedLines'[Len(parsedLines')])] = CHK)) ]_vars

\* C30: verbatim forwarding.  Every chunk received on stdout or stderr so
\* far was appended to the run's output exactly as it was received.
C30_VerbatimForwarding == verbatim = TRUE

----------------------------------------------------------------------------
(* Properties of streaming, of fatal-error extraction and of the executor *)

\* the events so far whose identifier resolves to a node of the target
ResolvedEvents ==
    SelectSeq(events, LAMBDA e : e.name \in DOMAIN BuildTestNameMap(queue[1]))

\* the invocation as it was when the process was spawned
StreamStart ==
    [Cur EXCEPT !.outcome = [n \in Nodes |-> IF n = queue[1] THEN "Running"
                                              ELSE "Unset"],
                !.inv = <<[NewInv EXCEPT !.promise = "pending"]>>]

\* C31: unmatched names are harmless.  The node outcomes, seenTests and
\* testResults are those produced by the events whose identifier resolves
\* to a node alone: an event whose identifier resolves to no node changed
\* nothing, and the events of the lines and chunks after it were applied.
C31_UnmatchedHarmless ==
    /\ outcome = ApplyEvents(StreamStart, 1, ResolvedEvents).outcome
    /\ inv[1].seen = ApplyEvents(StreamStart, 1, ResolvedEvents).inv[1].seen
    /\ inv[1].results = ApplyEvents(StreamStart, 1, ResolvedEvents).inv[1].results
    /\ inv[1].seen \subseteq DOMAIN BuildTestNameMap(queue[1])
    /\ (errPos = 0 => events = ParseLines(Front(Split(SubSeq(stdoutStream, 1, outPos)))))

\* an unmatched event was followed by a matched one, which was applied
C31_Witness ==
    \E i, j \in 1..Len(events) :
        /\ i < j
        /\ events[i].name \notin DOMAIN BuildTestNameMap(queue[1])
        /\ events[j].name \in DOMAIN BuildTestNameMap(queue[1])
        /\ inv[1].seen = {events[j].name}
        /\ outcome[BuildTestNameMap(queue[1])[events[j].name]]
              = (IF events[j].passed THEN "Passed" ELSE "Failed")

\* the r-th form of extractFatalErrorInfo, in the order of the source
Form(r, s) ==
    CASE r = 1 -> HtmlErrorMatch(s)
      [] r = 2 -> PlainErrorMatch(s)
      [] r = 3 -> GenericErrorMatch(s)

MatchingForms(s) == {r \in 1..3 : Form(r, s).matched}

\* C32: fatal-error extraction order.  The result of extractFatalErrorInfo
\* on the output of the failed command is that of the first form that
\* matches in the order wrapped form (class and message, file, line), plain
\* form (message, file, line), generic form (message only); it is none
\* exactly when no form matches.
C32_ExtractionOrder ==
    LET s == CombinedOutput(stdoutStream, stderrStream)
        r == ExtractFatalErrorInfo(stdoutStream, stderrStream)
    IN  /\ MatchingForms(s) # {} =>
              r = Form(CHOOSE f \in MatchingForms(s) :
                           \A g \in MatchingForms(s) : f <= g, s)
        /\ r.matched <=> MatchingForms(s) # {}
        /\ (r.matched /\ 3 \notin MatchingForms(s)) => r.hasFile

\* an output that all three forms match, with different locations, was
\* handled: the file of the wrapped form was marked
C32_Witness ==
    /\ runEnded
    /\ queue = <<"S">>
    /\ MatchingForms(CombinedOutput(stdoutStream, stderrStream)) = {1, 2, 3}
    /\ ParseTestResults(stdoutStream, stderrStream) = EmptyMap
    /\ outcome["F1"] = "Failed"
    /\ outcome["F2"] = "Unset"

C40_DetectionImpliesExtraction ==
    (runEnded /\ DetectFatalError(stdoutStream, stderrStream))
        => ExtractFatalErrorInfo(stdoutStream, stderrStream).matched

\* the report at the report path was left by an earlier invocation: the
\* runner writes testcases of the files it was asked to run, and the
\* report's testcases belong to the files of an earlier target and not to
\* those of the target of invocation k
StaleReport(k) ==
    /\ report.exists
    /\ report.cases # <<>>
    /\ \A i \in 1..Len(report.cases) : report.cases[i].file \notin FilesUnder(queue[k])
    /\ \E j \in 1..(k - 1) :
          \A i \in 1..Len(report.cases) : report.cases[i].file \in FilesUnder(queue[j])

\* C34: report freshness.  When reconciliation runs for an invocation that
\* wrote no report while the report of an earlier invocation still exists,
\* it changes the outcome of no method node.
C34_ReportFreshness ==
    [][\A k \in Idx :
          (ReconcileStep(k) /\ StaleReport(k)) =>
              \A n \in Methods : outcome'[n] = outcome[n]]_vars

\* C33: cancellation is run-scoped.  With two runs in flight, cancelling one
\* run sends SIGTERM to that run's child process if it is still running,
\* and to no child process of the other run.
C33_CancelRunScoped ==
    [][\A r \in RunIds :
          (r \notin cancelledRuns /\ r \in cancelledRuns') =>
              /\ \A k \in RunIds \ {r} : proc'[k].killed = proc[k].killed
              /\ proc[r].state = "running" => proc'[r].killed]_vars

\* process k closed in this step
Closes(k) == proc[k].state = "running" /\ proc'[k].state # "running"

\* the timeout callback of invocation k ran in this step
TimesOut(k) ==
    /\ timerLive[k] /\ ~timerLive'[k]
    /\ \A j \in DOMAIN proc : ~Closes(j)
    /\ cancelledRuns' = cancelledRuns
    /\ cancelRequested' = cancelRequested

\* C36: executor state isolation.  The close of one invocation's process
\* (late, after its promise was rejected, or while another invocation runs)
\* leaves the pending timeout timer of every other invocation pending and
\* leaves a carry-over buffer holding another invocation's text as it is;
\* the timeout callback of an invocation sends SIGTERM to no process of
\* another invocation.
C36_ExecutorIsolation ==
    [][\A k \in DOMAIN proc :
          /\ Closes(k) =>
                /\ \A j \in DOMAIN proc \ {k} : timerLive[j] => timerLive'[j]
                /\ (\E j \in DOMAIN proc \ {k} : lineBuffer = Fragment(j))
                       => lineBuffer' = lineBuffer
          /\ TimesOut(k) =>
                \A j \in DOMAIN proc \ {k} : proc'[j].killed = proc[j].killed]_vars

\* C37: signal deaths count as exit code 0.  When a process closes with a
\* null exit code because of a signal other than SIGTERM, onComplete is
\* invoked with exit code 0 and the pending promise is resolved; when
\* onComplete then finishes with no fatal-error marker and no failed
\* streaming result, the item that was run is marked Passed.
C37_SignalDeathPasses ==
    [][\A r \in RunIds :
          /\ (Closes(r) /\ proc'[r].state = "signalled") =>
                /\ inv'[r].exitCode = 0
                /\ inv'[r].complete = "waiting"
                /\ inv[r].promise = "pending" => inv'[r].promise = "resolved"
          /\ (/\ proc[r].state = "signalled"
              /\ inv[r].complete = "waiting" /\ inv'[r].complete = "done"
              /\ ~inv[r].fatal
              /\ \A t \in DOMAIN inv[r].results : inv[r].results[t])
             => outcome'[queue[r]] = "Passed"]_vars

\* a process died of a signal and its item was marked Passed
C37_Witness ==
    \E r \in RunIds :
        /\ proc[r].state = "signalled"
        /\ inv[r].complete = "done"
        /\ inv[r].promise = "resolved"
        /\ outcome[queue[r]] = "Passed"

\* C38: a final unterminated line is never classified.  When the process
\* closes, cleanup clears the carry-over buffer and nothing of it is handed
\* to parseLine: the close makes no onTestResult call.
C38_UnterminatedLineDropped ==
    [][(~streamClosed /\ streamClosed') =>
          /\ events' = events
          /\ parsedLines' = parsedLines
          /\ lineBuffer' = <<>>]_vars

\* the process closed after printing a last line that has an outcome but no
\* newline; only the lines before it were classified
C38_Witness ==
    /\ streamClosed
    /\ stderrStream = <<>>
    /\ ParseLine(Trim(Last(Split(stdoutStream)))) # <<>>
    /\ events = ParseLines(Front(Split(stdoutStream)))
    /\ lineBuffer = <<>>

\* C39: a SIGTERM close never completes the run.  When a process that was
\* sent SIGTERM (by cancel or by the timeout) closes, onComplete is not
\* invoked for its invocation, whose promise is rejected afterwards.
C39_SigtermNeverCompletes ==
    [][\A k \in Idx :
          (Closes(k) /\ proc[k].killed) =>
              /\ inv[k].complete = "none"
              /\ inv'[k].complete = "none"
              /\ inv'[k].exitCode = inv[k].exitCode
              /\ inv'[k].promise = "rejected"]_vars

\* a process closed after SIGTERM; its invocation was rejected, on the
\* close or before by the timeout, and onComplete did not run
C39_Witness ==
    \E k \in Idx :
        /\ proc[k].state = "closed"
        /\ proc[k].killed
        /\ inv[k].promise = "rejected"
        /\ inv[k].complete = "none"
        /\ outcome[queue[k]] \in {"Failed", "Running"}
====
